---- MODULE Spec2Model ----
(***************************************************************************)
(* Memory engine: engrams, synapses and chronicles behind the store        *)
(* interface, driven by the ingestion, signal and temporal services.       *)
(*                                                                         *)
(* Tables are sequences of rows in insertion (rowid) order.  Instants are  *)
(* epoch milliseconds; the wall clock starts at 1.                         *)
(* Signals and weights are fixed-point numbers in units of 1/One.          *)
(***************************************************************************)
EXTENDS Integers, Sequences, FiniteSets, TLC

\* ---------------------------------------------------------------- bounds
MaxTime == 2
MaxChronicles == 3
MaxEngrams == 2
MaxAccessCount == 2
MaxRequests == 2
MaxSynapses == 4
MaxCalls == 2
MaxNexuses == 2

\* ------------------------------------------------------------ value sets
Owners == {"u1", "u2"}
Entities == {"speaker"}
Attributes == {"phone"}
Values == {"Samsung", "iPhone"}

\* fixed-point unit: a signal or weight of 1.0
One == 1000000
\* createEngram: input.signal ?? 0.5
DefaultSignal == 500000
\* DEFAULT_DECAY_OPTIONS.minSignal = 0.01
MinSignal == 10000
\* addMemory reinforces a duplicate by 0.1
DuplicateBoost == 100000
\* addMemory forms synapses with weight 0.5
FormWeight == 500000
\* DeduplicationService threshold 0.92, in percent
ThresholdPct == 92
\* DeduplicationService asks vectorSearch for 5 neighbours
DedupNeighbours == 5

STRANDS == <<"factual", "experiential", "procedural", "preferential", "relational", "general">>
Strands == {STRANDS[i] : i \in DOMAIN STRANDS}

\* DEFAULT_DECAY_OPTIONS.strandRates, in percent
strandRates ==
  [factual |-> 95, experiential |-> 90, procedural |-> 97,
   preferential |-> 93, relational |-> 92, general |-> 88]

\* texts requests and the completion provider hand in
Texts == {"hiking", "Hiking", "cooking"}

\* the embedder: deterministic, non-zero vectors of one dimension D = 2; the
\* native embedder lower-cases its input, so "Hiking" embeds as "hiking"
embed(text) ==
  CASE text = "cooking" -> <<3, 4>>
    [] text \in {"Samsung phone", "phone phone iPhone", "hiking, Samsung"} -> <<0, 5>>
    [] text = "swimming" -> <<0, 5>>
    [] text = "running" -> <<-3, 4>>
    [] text = "reading" -> <<-5, 0>>
    [] text = "painting" -> <<-3, -4>>
    [] OTHER -> <<5, 0>>

\* the SHA-256 hex digest of a text (distinct texts, distinct digests)
sha256(text) == <<"sha256", text>>

\* SQL NULL in a nullable INTEGER column / a null Date
NULL == -1
\* an optional input field that was not supplied
UNDEFINED == -2

\* instants requests can name: dates after the epoch
Instants == 1..MaxTime
OptInstant == Instants \cup {UNDEFINED}
OptNullInstant == Instants \cup {UNDEFINED, NULL}

\* calls holds the requests in flight, each at the await it stopped at
VARIABLES now, engrams, synapses, chronicles, nexuses, nextId, requests, calls, last

vars == <<now, engrams, synapses, chronicles, nexuses, nextId, requests, calls, last>>
engramVars == <<engrams, synapses, nextId, requests>>

RowsOf(table) == {table[i] : i \in DOMAIN table}

\* ------------------------------------------------------- chronicle store

\* SqliteStore.rowToChronicle: a falsy effective_until (NULL, and epoch 0)
\* reads back as null
rowToChronicle(row) ==
  [row EXCEPT !.effectiveUntil =
     IF row.effectiveUntil = NULL \/ row.effectiveUntil = 0 THEN NULL
     ELSE row.effectiveUntil]

\* ValidAt with the upper end closed: effective_until >= t
ValidAt_ClosedEnd(row, t) ==
  /\ row.effectiveFrom <= t
  /\ (row.effectiveUntil = NULL \/ row.effectiveUntil >= t)

\* WHERE clause shared by getCurrentFact / getCurrentChronicles / at-queries
ValidAt(row, t) ==
  /\ row.effectiveFrom <= t
  /\ (row.effectiveUntil = NULL \/ row.effectiveUntil > t)

\* SqliteStore.getCurrentFact: the rows ORDER BY effective_from DESC LIMIT 1
\* may return (any row of maximal effective_from; the empty set when the
\* call returns null)
getCurrentFact(table, ownerId, entity, attribute, t) ==
  LET match == {c \in RowsOf(table) :
                  /\ c.ownerId = ownerId
                  /\ c.entity = entity
                  /\ c.attribute = attribute
                  /\ ValidAt(c, t)}
  IN {c \in match : \A d \in match : d.effectiveFrom <= c.effectiveFrom}

\* UNIQUE(entity, attribute, value, effective_from) on the chronicles table
ChronicleUniqueViolation(table, entity, attribute, value, from) ==
  \E c \in RowsOf(table) :
     /\ c.entity = entity
     /\ c.attribute = attribute
     /\ c.value = value
     /\ c.effectiveFrom = from

\* SqliteStore.createChronicle: the row inserted (ids are fresh; the row's
\* position serves as its id, chronicles are never hard-deleted)
createChronicle(table, ownerId, entity, attribute, value, effectiveFrom, effectiveUntil, t) ==
  Append(table,
         [id |-> Len(table) + 1,
          ownerId |-> ownerId,
          entity |-> entity,
          attribute |-> attribute,
          value |-> value,
          effectiveFrom |-> IF effectiveFrom # UNDEFINED THEN effectiveFrom ELSE t,
          effectiveUntil |-> IF effectiveUntil \in Instants THEN effectiveUntil ELSE NULL])

\* SqliteStore.updateChronicle restricted to the effectiveUntil field:
\* undefined leaves the row alone, null or a Date overwrites effective_until
updateChronicle(table, id, effectiveUntil) ==
  IF effectiveUntil = UNDEFINED THEN table
  ELSE [i \in DOMAIN table |->
          IF table[i].id = id
          THEN [table[i] EXCEPT !.effectiveUntil = effectiveUntil]
          ELSE table[i]]

\* deleteChronicle without the effective_until IS NULL condition
deleteChronicle_AnyRow(table, id, t) ==
  [i \in DOMAIN table |->
     IF table[i].id = id
     THEN [table[i] EXCEPT !.effectiveUntil = t]
     ELSE table[i]]

\* SqliteStore.deleteChronicle: soft delete of an open row
deleteChronicle(table, id, t) ==
  [i \in DOMAIN table |->
     IF table[i].id = id /\ table[i].effectiveUntil = NULL
     THEN [table[i] EXCEPT !.effectiveUntil = t]
     ELSE table[i]]

\* page size of queryChronicles when the query names none
DefaultLimit == 20

\* the orders ORDER BY effective_from DESC may produce over a set of rows
\* (rows of equal effective_from come in any order)
RECURSIVE OrdersByFromDesc(_)
OrdersByFromDesc(rows) ==
  IF rows = {} THEN {<<>>}
  ELSE UNION {{<<c>> \o rest : rest \in OrdersByFromDesc(rows \ {c})} :
              c \in {m \in rows : \A d \in rows : d.effectiveFrom <= m.effectiveFrom}}

\* the WHERE clause SqliteStore.queryChronicles builds: a falsy entity,
\* attribute, at, from or to adds no condition
queryChroniclesWhere(row, query) ==
  /\ row.ownerId = query.ownerId
  /\ (query.entity # "" => row.entity = query.entity)
  /\ (query.attribute # "" => row.attribute = query.attribute)
  /\ (query.at # UNDEFINED => ValidAt(row, query.at))
  /\ (query.from # UNDEFINED => row.effectiveFrom >= query.from)
  /\ (query.to # UNDEFINED =>
        (row.effectiveUntil = NULL \/ row.effectiveUntil <= query.to))

\* LIMIT ? OFFSET ? over an ordered result
Page(rows, limit, offset) ==
  [i \in 1..(IF Len(rows) - offset < 0 THEN 0
             ELSE IF Len(rows) - offset < limit THEN Len(rows) - offset
             ELSE limit) |-> rows[offset + i]]

\* SqliteStore.queryChronicles: every result the call may return
queryChronicles(table, query) ==
  LET matching == {c \in RowsOf(table) : queryChroniclesWhere(c, query)}
      limit == IF query.limit # UNDEFINED THEN query.limit ELSE DefaultLimit
      offset == IF query.offset # UNDEFINED THEN query.offset ELSE 0
  IN {[chronicles |-> [i \in DOMAIN Page(ordered, limit, offset) |->
                         rowToChronicle(Page(ordered, limit, offset)[i])],
       total |-> Cardinality(matching)] :
      ordered \in OrdersByFromDesc(matching)}

\* SqliteStore.getCurrentChronicles: the owner's rows valid at t, ORDER BY
\* effective_from DESC
getCurrentChronicles(table, ownerId, t) ==
  OrdersByFromDesc({c \in RowsOf(table) : c.ownerId = ownerId /\ ValidAt(c, t)})

\* SqliteStore.getTimeline: the rows of the owner and entity, ORDER BY
\* effective_from ASC (the reverse of a descending order)
getTimeline(table, ownerId, entity) ==
  {[i \in DOMAIN o |-> o[Len(o) + 1 - i]] :
     o \in OrdersByFromDesc({c \in RowsOf(table) :
                               c.ownerId = ownerId /\ c.entity = entity})}

\* the id of a row that does not exist (a null lookup result)
NoId == 0

\* what a nullable lookup may return: the ids of the candidate rows, or
\* NoId alone when there is none
IdsOrNone(rows) == IF rows = {} THEN {NoId} ELSE {r.id : r \in rows}

\* --------------------------------------------------------- engram store

Min(a, b) == IF a <= b THEN a ELSE b
Max(a, b) == IF a >= b THEN a ELSE b

\* signal * rate for a rate given in percent, truncated to the unit 1/One
\* (truncation keeps x * rate < x for every x > 0 and rate < 1)
MulRate(x, pct) == (x * pct) \div 100

\* the optional strand and text of a request, when absent
NoStrand == ""
NoText == ""

Dot(a, b) == a[1] * b[1] + a[2] * b[2]

\* cosineSimilarity(a, b) >= pct / 100
CosAtLeast(a, b, pct) ==
  IF Dot(a, a) * Dot(b, b) = 0
  THEN pct <= 0
  ELSE /\ Dot(a, b) >= 0
       /\ Dot(a, b) * Dot(a, b) * 10000 >= pct * pct * Dot(a, a) * Dot(b, b)

\* the integer square root of a sum of squares (the model's vectors have
\* whole norms)
Sqrt(n) == CHOOSE r \in 0..n : r * r <= n /\ (r + 1) * (r + 1) > n

\* cosineSimilarity(q, a) < cosineSimilarity(q, b), for vectors of non-zero
\* norm
CosLess(q, a, b) ==
  Dot(q, a) * Sqrt(Dot(b, b)) < Dot(q, b) * Sqrt(Dot(a, a))

HasEngram(table, id) == \E e \in RowsOf(table) : e.id = id

getEngram(table, id) == CHOOSE e \in RowsOf(table) : e.id = id

createEngram(table, id, ownerId, content, contentHash, embedding, strand, signal, t) ==
  Append(table,
         [id |-> id, ownerId |-> ownerId, content |-> content,
          contentHash |-> contentHash,
          strand |-> IF strand = NoStrand THEN "general" ELSE strand,
          embedding |-> embedding,
          signal |-> IF signal = UNDEFINED THEN DefaultSignal ELSE signal,
          accessCount |-> 0, createdAt |-> t, lastAccessedAt |-> t])

\* a contentHash or embedding that was not supplied
NoVector == <<>>

\* input: [content, contentHash, embedding, strand, signal], each possibly
\* absent (NoText, NoVector, NoStrand, UNDEFINED)
updateEngram(table, id, input) ==
  [i \in DOMAIN table |->
     IF table[i].id # id THEN table[i]
     ELSE [table[i] EXCEPT
             !.content = IF input.content # NoText THEN input.content ELSE @,
             !.contentHash = IF input.contentHash # NoVector
                             THEN input.contentHash ELSE @,
             !.embedding = IF input.embedding # NoVector
                           THEN input.embedding ELSE @,
             !.strand = IF input.strand # NoStrand THEN input.strand ELSE @,
             !.signal = IF input.signal # UNDEFINED THEN input.signal ELSE @]]

\* SqliteStore.deleteEngram: DELETE FROM engrams WHERE id = ?
deleteEngram(table, id) == SelectSeq(table, LAMBDA e : e.id # id)

\* SELECT ... LIMIT 1 without ORDER BY: any matching row
findByContentHash(table, ownerId, contentHash) ==
  {e \in RowsOf(table) : e.ownerId = ownerId /\ e.contentHash = contentHash}

\* every order of the rows by non-increasing similarity to q
RECURSIVE OrdersByScoreDesc(_, _)
OrdersByScoreDesc(rows, q) ==
  IF rows = {} THEN {<<>>}
  ELSE UNION {{<<r>> \o rest : rest \in OrdersByScoreDesc(rows \ {r}, q)} :
              r \in {x \in rows :
                       \A y \in rows : ~CosLess(q, x.embedding, y.embedding)}}

\* vectorSearch without the owner_id = ? condition
vectorSearch_AnyOwner(table, ownerId, embedding, limit, strand) ==
  {SubSeq(o, 1, Min(limit, Len(o))) :
     o \in OrdersByScoreDesc({e \in RowsOf(table) :
                                strand # NoStrand => e.strand = strand},
                             embedding)}

\* the admissible results: the owner's rows (of the strand, when one is
\* given) scored, sorted, cut at limit
vectorSearch(table, ownerId, embedding, limit, strand) ==
  {SubSeq(o, 1, Min(limit, Len(o))) :
     o \in OrdersByScoreDesc({e \in RowsOf(table) :
                                /\ e.ownerId = ownerId
                                /\ (strand # NoStrand => e.strand = strand)},
                             embedding)}

\* cosineSimilarity in units of 1/One
cosineSimilarity(a, b) ==
  IF Sqrt(Dot(a, a)) * Sqrt(Dot(b, b)) = 0 THEN 0
  ELSE (Dot(a, b) * One) \div (Sqrt(Dot(a, a)) * Sqrt(Dot(b, b)))

\* every order ORDER BY created_at DESC may produce over a set of rows
RECURSIVE OrdersByCreatedDesc(_)
OrdersByCreatedDesc(rows) ==
  IF rows = {} THEN {<<>>}
  ELSE UNION {{<<e>> \o rest : rest \in OrdersByCreatedDesc(rows \ {e})} :
              e \in {m \in rows : \A d \in rows : d.createdAt <= m.createdAt}}

\* SqliteStore.listEngrams without offset: the pages the call may return
listEngrams(table, ownerId, limit, strand) ==
  {SubSeq(o, 1, Min(IF limit = UNDEFINED THEN DefaultLimit ELSE limit, Len(o))) :
     o \in OrdersByCreatedDesc({e \in RowsOf(table) :
                                  /\ e.ownerId = ownerId
                                  /\ (strand # NoStrand => e.strand = strand)})}

\* reinforceEngram without the MIN(..., 1.0) cap
reinforceEngram_NoCap(table, id, boost) ==
  [i \in DOMAIN table |->
     IF table[i].id = id
     THEN [table[i] EXCEPT !.signal = @ + boost]
     ELSE table[i]]

\* reinforceEngram without the WHERE id = ? clause
reinforceEngram_NoWhere(table, id, boost) ==
  [i \in DOMAIN table |->
     [table[i] EXCEPT !.signal = Min(@ + boost, One)]]

reinforceEngram(table, id, boost) ==
  [i \in DOMAIN table |->
     IF table[i].id = id
     THEN [table[i] EXCEPT !.signal = Min(@ + boost, One)]
     ELSE table[i]]

\* decayEngrams without the signal > ? condition
decayEngrams_NoGuard(table, ownerId, decayFactor, minSignal) ==
  [i \in DOMAIN table |->
     IF table[i].ownerId = ownerId
     THEN [table[i] EXCEPT !.signal = Max(MulRate(@, decayFactor), minSignal)]
     ELSE table[i]]

decayEngrams(table, ownerId, decayFactor, minSignal) ==
  [i \in DOMAIN table |->
     IF table[i].ownerId = ownerId /\ table[i].signal > minSignal
     THEN [table[i] EXCEPT !.signal = Max(MulRate(@, decayFactor), minSignal)]
     ELSE table[i]]

recordAccess(table, id, t) ==
  [i \in DOMAIN table |->
     IF table[i].id = id
     THEN [table[i] EXCEPT !.accessCount = @ + 1, !.lastAccessedAt = t]
     ELSE table[i]]

\* --------------------------------------------------------- synapse store

HasSynapse(table, sourceId, targetId) ==
  \E s \in RowsOf(table) : s.sourceId = sourceId /\ s.targetId = targetId

\* INSERT ... ON CONFLICT(source_id, target_id) DO UPDATE
createSynapse(table, sourceId, targetId, ownerId, weight, t) ==
  IF HasSynapse(table, sourceId, targetId)
  THEN [i \in DOMAIN table |->
          IF table[i].sourceId = sourceId /\ table[i].targetId = targetId
          THEN [table[i] EXCEPT !.weight = Min(@ + weight, One),
                                !.reinforcedAt = t]
          ELSE table[i]]
  ELSE Append(table,
              [sourceId |-> sourceId, targetId |-> targetId,
               ownerId |-> ownerId, weight |-> weight,
               formedAt |-> t, reinforcedAt |-> t])

\* a cascade over source_id alone
cascadeSynapses_SourceOnly(table, engramId) ==
  SelectSeq(table, LAMBDA s : s.sourceId # engramId)

\* ON DELETE CASCADE of source_id and target_id: the synapses of a deleted
\* engram go with it
cascadeSynapses(table, engramId) ==
  SelectSeq(table, LAMBDA s : s.sourceId # engramId /\ s.targetId # engramId)

\* SqliteStore.getSynapsesFrom: the rows in the order of the table. The
\* statement has no ORDER BY; synapses are formed between any engrams in any
\* order, so every order in which the store may return the synapses of one
\* source is the table order of some state
getSynapsesFrom(table, engramId) ==
  SelectSeq(table, LAMBDA s : s.sourceId = engramId)

\* ----------------------------------------------------- temporal service

\* TemporalService.recordFact, lines 10-14: auto-expire the row returned by
\* getCurrentFact unless the caller supplied an effectiveFrom
recordFactExpire(table, existingId, effectiveFrom, t) ==
  IF existingId # NoId /\ effectiveFrom = UNDEFINED
  THEN updateChronicle(table, existingId, t)
  ELSE table

\* TemporalService.recordFact: every outcome of one call.  The insert throws
\* on the uniqueness constraint after the auto-expiry was already written.
recordFact(table, ownerId, entity, attribute, value, effectiveFrom, effectiveUntil, t) ==
  {LET expired == recordFactExpire(table, existingId, effectiveFrom, t)
       from == IF effectiveFrom # UNDEFINED THEN effectiveFrom ELSE t
       ok == ~ChronicleUniqueViolation(expired, entity, attribute, value, from)
   IN [chronicles |-> IF ok
                      THEN createChronicle(expired, ownerId, entity, attribute,
                                           value, effectiveFrom, effectiveUntil, t)
                      ELSE expired,
       existing |-> existingId, ok |-> ok,
       id |-> IF ok THEN Len(table) + 1 ELSE NoId] :
   existingId \in IdsOrNone(getCurrentFact(table, ownerId, entity, attribute, t))}

\* POST /chronicles
RecordFact(ownerId, entity, attribute, value, effectiveFrom, effectiveUntil) ==
  /\ Len(chronicles) < MaxChronicles
  /\ \E out \in recordFact(chronicles, ownerId, entity, attribute, value,
                           effectiveFrom, effectiveUntil, now) :
       /\ chronicles' = out.chronicles
       /\ last' = [op |-> "recordFact", ownerId |-> ownerId, entity |-> entity,
                   attribute |-> attribute, value |-> value,
                   effectiveFrom |-> effectiveFrom, effectiveUntil |-> effectiveUntil,
                   existing |-> out.existing, ok |-> out.ok, id |-> out.id]
  /\ UNCHANGED <<calls, now, engramVars, nexuses>>

\* a sequence without its i-th element
RemoveAt(seq, i) == [k \in 1..(Len(seq) - 1) |-> IF k < i THEN seq[k] ELSE seq[k + 1]]

\* the open rows of a key recorded after the first seen rows of the table
RecordedSince(table, call, t) ==
  {c.id : c \in {d \in RowsOf(table) :
                   /\ d.id > call.seen
                   /\ d.ownerId = call.ownerId
                   /\ d.entity = call.entity
                   /\ d.attribute = call.attribute
                   /\ ValidAt(d, t)}}

\* recordFact, line 16, with the current fact read again and expired when
\* the row is inserted
recordFactInsert_Reread(table, call, t) ==
  LET expired == [i \in DOMAIN table |->
                    IF table[i].id \in RecordedSince(table, call, t)
                    THEN [table[i] EXCEPT !.effectiveUntil = t]
                    ELSE table[i]]
  IN IF ChronicleUniqueViolation(expired, call.entity, call.attribute, call.value, t)
     THEN expired
     ELSE createChronicle(expired, call.ownerId, call.entity, call.attribute,
                          call.value, UNDEFINED, UNDEFINED, t)

\* recordFact, line 16: the row inserted unless the uniqueness constraint
\* throws
recordFactInsert(table, call, t) ==
  IF ChronicleUniqueViolation(table, call.entity, call.attribute, call.value, t)
  THEN table
  ELSE createChronicle(table, call.ownerId, call.entity, call.attribute,
                       call.value, UNDEFINED, UNDEFINED, t)

\* a recordFact call without effectiveFrom up to its first await, line 10:
\* the current fact read
RecordFactLookup(ownerId, entity, attribute, value) ==
  /\ Len(calls) < MaxCalls
  /\ Len(chronicles) + Len(calls) < MaxChronicles
  /\ \E existingId \in IdsOrNone(getCurrentFact(chronicles, ownerId, entity,
                                                attribute, now)) :
       calls' = Append(calls, [op |-> "recordFact", ownerId |-> ownerId,
                               entity |-> entity, attribute |-> attribute,
                               value |-> value, existing |-> existingId,
                               seen |-> Len(chronicles), pc |-> "expire"])
  /\ last' = [op |-> "recordFact.lookup", ownerId |-> ownerId]
  /\ UNCHANGED <<now, engramVars, chronicles, nexuses>>

\* the call resumed, lines 11-14: the row it read is expired
RecordFactExpire(i) ==
  /\ i \in DOMAIN calls
  /\ calls[i].op = "recordFact"
  /\ calls[i].pc = "expire"
  /\ chronicles' = recordFactExpire(chronicles, calls[i].existing, UNDEFINED, now)
  /\ calls' = [calls EXCEPT ![i].pc = "insert"]
  /\ last' = [op |-> "recordFact.expire", existing |-> calls[i].existing]
  /\ UNCHANGED <<now, engramVars, nexuses>>

\* the call resumed, line 16: the row inserted and the call over
RecordFactInsert(i) ==
  /\ i \in DOMAIN calls
  /\ calls[i].op = "recordFact"
  /\ calls[i].pc = "insert"
  /\ chronicles' = recordFactInsert(chronicles, calls[i], now)
  /\ calls' = RemoveAt(calls, i)
  /\ last' = [op |-> "recordFact.insert",
              ok |-> Len(chronicles') > Len(chronicles),
              id |-> Len(chronicles) + 1,
              existing |-> calls[i].existing,
              since |-> RecordedSince(chronicles, calls[i], now)]
  /\ UNCHANGED <<now, engramVars, nexuses>>

\* TemporalService.updateChronicle (PATCH /chronicles/:id), effectiveUntil only
UpdateChronicle(id, effectiveUntil) ==
  /\ chronicles' = updateChronicle(chronicles, id, effectiveUntil)
  /\ last' = [op |-> "updateChronicle", id |-> id, effectiveUntil |-> effectiveUntil,
              ok |-> id \in DOMAIN chronicles]
  /\ UNCHANGED <<calls, now, engramVars, nexuses>>

\* TemporalService.expireChronicle (DELETE /chronicles/:id)
ExpireChronicle(id) ==
  /\ chronicles' = deleteChronicle(chronicles, id, now)
  /\ last' = [op |-> "expireChronicle", id |-> id,
              ok |-> chronicles' # chronicles,
              status |-> IF chronicles' # chronicles THEN 204 ELSE 404]
  /\ UNCHANGED <<calls, now, engramVars, nexuses>>

\* ------------------------------------------------------------- nexuses

\* SqliteStore.createNexus: origin_id and linked_id REFERENCE chronicles(id)
\* with foreign keys on, so the insert throws unless both rows exist
createNexus(table, chrons, originId, linkedId, bondType) ==
  IF (\E c \in RowsOf(chrons) : c.id = originId) /\
     (\E c \in RowsOf(chrons) : c.id = linkedId)
  THEN Append(table, [id |-> Len(table) + 1, originId |-> originId,
                      linkedId |-> linkedId, bondType |-> bondType])
  ELSE table

\* TemporalService.linkChronicles (POST /nexuses)
CreateNexus(originId, linkedId, bondType) ==
  /\ Len(nexuses) < MaxNexuses
  /\ nexuses' = createNexus(nexuses, chronicles, originId, linkedId, bondType)
  /\ last' = [op |-> "createNexus", originId |-> originId,
              linkedId |-> linkedId, ok |-> nexuses' # nexuses]
  /\ UNCHANGED <<calls, now, engramVars, chronicles>>

\* ------------------------------------------------------- fact extraction

\* a parsed JSON answer of the completion provider
\* (arrays: the fields of the answer that are JSON arrays)
Answer(facts, strand, temporalFacts) ==
  [ok |-> TRUE, facts |-> facts, strand |-> strand,
   temporalFacts |-> temporalFacts, arrays |-> {"facts", "temporalFacts"}]

\* a failed completion (network error, invalid JSON): completeJson throws
Failure ==
  [ok |-> FALSE, facts |-> <<>>, strand |-> "", temporalFacts |-> <<>>,
   arrays |-> {}]

\* a parsed answer of another shape: only the fields in arrays are arrays
Shaped(answer, arrays) == [answer EXCEPT !.arrays = arrays]

\* the native provider: the prompt as the only fact
Passthrough(content) == Answer(<<content>>, "general", <<>>)

\* contents handed to addMemory, each with an answer of the provider
Ingestions ==
  {<<c, Passthrough(c)>> : c \in Texts} \cup
  {<<"hiking", Failure>>,
   <<"hiking", Answer(<<"hiking", "cooking">>, "preferential", <<>>)>>,
   <<"hiking", Answer(<<"hiking", "Hiking">>, "mood", <<>>)>>,
   <<"hiking", Answer(<<"hiking", "hiking">>, "mood", <<>>)>>,
   <<"cooking", Answer(<<"cooking", "hiking", "cooking">>, "experiential", <<>>)>>,
   <<"Hiking", Answer(<<"">>, "factual",
                      <<[entity |-> "speaker", attribute |-> "phone",
                         value |-> "Samsung"]>>)>>,
   <<"cooking", Answer(<<"cooking", "hiking">>, "factual",
                       <<[entity |-> "speaker", attribute |-> "phone",
                          value |-> "Samsung"],
                         [entity |-> "speaker", attribute |-> "phone",
                          value |-> "iPhone"]>>)>>}

\* FactExtractionService.extract
extract(content, result) ==
  IF ~result.ok
  THEN [facts |-> <<content>>, strand |-> "general", temporalFacts |-> <<>>]
  ELSE LET facts == IF "facts" \in result.arrays
                    THEN SelectSeq(result.facts, LAMBDA f : f # "")
                    ELSE <<content>>
       IN [facts |-> IF facts = <<>> THEN <<content>> ELSE facts,
           strand |-> IF result.strand \in Strands THEN result.strand
                      ELSE "general",
           temporalFacts |-> IF "temporalFacts" \in result.arrays
                             THEN result.temporalFacts ELSE <<>>]

\* ---------------------------------------------------------- deduplication

\* the loop over the candidates: the first one at or above the threshold
FirstSimilar(candidates, embedding) ==
  LET hits == {i \in DOMAIN candidates :
                 CosAtLeast(embedding, candidates[i].embedding, ThresholdPct)}
  IN IF hits = {} THEN NoId
     ELSE candidates[CHOOSE i \in hits : \A j \in hits : i <= j].id

\* checkDuplicate that never reports a duplicate
checkDuplicate_None(table, ownerId, content, embedding) == {NoId}

\* DeduplicationService.checkDuplicate: the ids `existing` may carry, NoId
\* when the content is no duplicate
checkDuplicate(table, ownerId, content, embedding) ==
  LET hashMatch == findByContentHash(table, ownerId, sha256(content))
  IN IF hashMatch # {} THEN {e.id : e \in hashMatch}
     ELSE {FirstSimilar(candidates, embedding) :
             candidates \in vectorSearch(table, ownerId, embedding,
                                         DedupNeighbours, NoStrand)}

\* ------------------------------------------------------------------ decay

\* DecayService.reinforceAccess
reinforceAccess(table, engramId, boost, t) ==
  recordAccess(reinforceEngram(table, engramId, boost), engramId, t)

\* DecayService.runDecay: the loop over STRANDS from position k on
RECURSIVE runDecay(_, _, _)
runDecay(table, ownerId, k) ==
  IF k > Len(STRANDS) THEN table
  ELSE runDecay(decayEngrams(table, ownerId, strandRates[STRANDS[k]], MinSignal),
                ownerId, k + 1)

\* --------------------------------------------------------- memory service

\* addMemory, lines 59-81, over a store that refuses a second engram of one
\* (owner_id, content_hash)
storeChecked_Unique(st, ownerId, fact, strand, signal, existing, t) ==
  IF existing # NoId
  THEN [engrams |-> reinforceAccess(st.engrams, existing, DuplicateBoost, t),
        nextId |-> st.nextId,
        storedEngrams |-> Append(st.storedEngrams, existing),
        returned |-> Append(st.returned, getEngram(st.engrams, existing))]
  ELSE IF findByContentHash(st.engrams, ownerId, sha256(fact)) # {}
  THEN st
  ELSE [engrams |-> createEngram(st.engrams, st.nextId, ownerId, fact,
                                 sha256(fact), embed(fact), strand, signal, t),
        nextId |-> st.nextId + 1,
        storedEngrams |-> Append(st.storedEngrams, st.nextId),
        returned |-> Append(st.returned,
                            createEngram(<<>>, st.nextId, ownerId, fact, sha256(fact),
                                         embed(fact), strand, signal, t)[1])]

\* addMemory, lines 59-81 for one fact, from the state st = [engrams,
\* nextId, storedEngrams (ids), returned]: the duplicate found is reinforced
\* and pushed as checkDuplicate read it, a new fact is stored and pushed as
\* createEngram returns it
storeChecked(st, ownerId, fact, strand, signal, existing, t) ==
  IF existing # NoId
  THEN [engrams |-> reinforceAccess(st.engrams, existing, DuplicateBoost, t),
        nextId |-> st.nextId,
        storedEngrams |-> Append(st.storedEngrams, existing),
        returned |-> Append(st.returned, getEngram(st.engrams, existing))]
  ELSE [engrams |-> createEngram(st.engrams, st.nextId, ownerId, fact,
                                 sha256(fact), embed(fact), strand, signal, t),
        nextId |-> st.nextId + 1,
        storedEngrams |-> Append(st.storedEngrams, st.nextId),
        returned |-> Append(st.returned,
                            createEngram(<<>>, st.nextId, ownerId, fact, sha256(fact),
                                         embed(fact), strand, signal, t)[1])]

\* addMemory, steps 2-4 for one fact: every outcome
storeFact(st, ownerId, fact, strand, signal, t) ==
  {storeChecked(st, ownerId, fact, strand, signal, existing, t) :
     existing \in checkDuplicate(st.engrams, ownerId, fact, embed(fact))}

\* the facts from position k on stored after duplicate checks that all
\* read the store as it was in the state base
RECURSIVE storeAfterChecks(_, _, _, _, _, _, _, _)
storeAfterChecks(st, base, ownerId, facts, k, strand, signal, t) ==
  IF k > Len(facts) THEN {st}
  ELSE UNION {storeAfterChecks(storeChecked(st, ownerId, facts[k], strand, signal,
                                            existing, t),
                               base, ownerId, facts, k + 1, strand, signal, t) :
                existing \in checkDuplicate(base, ownerId, facts[k], embed(facts[k]))}

\* addMemory with the facts checked for duplicates all at once, before any
\* of them is stored
storeFacts_ChecksFirst(states, ownerId, facts, k, strand, signal, t) ==
  UNION {storeAfterChecks(st, st.engrams, ownerId, facts, k, strand, signal, t) :
           st \in states}

\* addMemory, the loop over the facts from position k on
RECURSIVE storeFacts(_, _, _, _, _, _, _)
storeFacts(states, ownerId, facts, k, strand, signal, t) ==
  IF k > Len(facts) THEN states
  ELSE storeFacts(UNION {storeFact(st, ownerId, facts[k], strand, signal, t) :
                           st \in states},
                  ownerId, facts, k + 1, strand, signal, t)

\* addMemory, step 5: formSynapse(stored[i], stored[j]) for all i < j,
\* continuing at (i, j)
RECURSIVE formSynapses(_, _, _, _, _, _)
formSynapses(table, stored, i, j, ownerId, t) ==
  IF i > Len(stored) - 1 THEN table
  ELSE IF j > Len(stored)
       THEN formSynapses(table, stored, i + 1, i + 2, ownerId, t)
       ELSE formSynapses(createSynapse(table, stored[i], stored[j], ownerId,
                                       FormWeight, t),
                         stored, i, j + 1, ownerId, t)

\* one pass of the loop of step 6 over every outcome of recordFact
recordTemporalFact(states, ownerId, tf, t) ==
  UNION {{[chronicles |-> out.chronicles,
           recorded |-> Append(st.recorded, out.ok)] :
            out \in recordFact(st.chronicles, ownerId, tf.entity, tf.attribute,
                               tf.value, UNDEFINED, UNDEFINED, t)} :
         st \in states}

\* step 6 with the try / catch around the whole loop: the first failed
\* recordFact ends the loop
RECURSIVE recordTemporalFacts_StopAtFailure(_, _, _, _, _)
recordTemporalFacts_StopAtFailure(states, ownerId, temporalFacts, k, t) ==
  IF k > Len(temporalFacts) THEN states
  ELSE LET next == recordTemporalFact(states, ownerId, temporalFacts[k], t)
           failed == {st \in next : \E i \in DOMAIN st.recorded : ~st.recorded[i]}
       IN failed \cup
          (IF next = failed THEN {}
           ELSE recordTemporalFacts_StopAtFailure(next \ failed, ownerId,
                                                  temporalFacts, k + 1, t))

\* addMemory, step 6: recordFact for each temporal fact from position k on,
\* a failed call caught and logged inside the loop (recorded: the outcome
\* of each call)
RECURSIVE recordTemporalFacts(_, _, _, _, _)
recordTemporalFacts(states, ownerId, temporalFacts, k, t) ==
  IF k > Len(temporalFacts) THEN states
  ELSE recordTemporalFacts(
         recordTemporalFact(states, ownerId, temporalFacts[k], t),
         ownerId, temporalFacts, k + 1, t)

\* MemoryService.addMemory (POST /engrams)
AddMemory(ownerId, content, result, strand, signal) ==
  LET ex == extract(content, result)
      effectiveStrand == IF strand # NoStrand THEN strand ELSE ex.strand
  IN /\ Len(chronicles) + Len(ex.temporalFacts) <= MaxChronicles
     /\ \E st \in storeFacts({[engrams |-> engrams, nextId |-> nextId,
                               storedEngrams |-> <<>>, returned |-> <<>>]},
                             ownerId, ex.facts, 1, effectiveStrand, signal, now) :
          /\ Len(st.engrams) <= MaxEngrams
          /\ \A e \in RowsOf(st.engrams) : e.accessCount <= MaxAccessCount
          /\ engrams' = st.engrams
          /\ nextId' = st.nextId
          /\ synapses' = formSynapses(synapses, st.storedEngrams, 1, 2, ownerId, now)
          /\ \E tf \in recordTemporalFacts({[chronicles |-> chronicles,
                                              recorded |-> <<>>]},
                                            ownerId, ex.temporalFacts, 1, now) :
               /\ chronicles' = tf.chronicles
               /\ last' = [op |-> "addMemory", ownerId |-> ownerId,
                      content |-> content, facts |-> ex.facts,
                      temporalFacts |-> ex.temporalFacts,
                      recorded |-> tf.recorded,
                      storedEngrams |-> st.storedEngrams,
                      returned |-> st.returned,
                      repeat |-> /\ last.op = "addMemory"
                                 /\ last.ownerId = ownerId
                                 /\ last.content = content
                                 /\ last.facts = ex.facts]
     /\ UNCHANGED <<calls, now, requests, nexuses>>

\* a failure that undoes what the call stored before it
abortAddMemory_Rollback(before, st) == before

\* the exception of the k-th fact leaves the for loop and addMemory: there
\* is no catch and no transaction around the loop, the store stays as the
\* facts before it left it
abortAddMemory(before, st) == st

\* an addMemory call whose k-th fact fails: embed, checkDuplicate,
\* reinforceAccess or createEngram throws, the caller gets the error
AddMemoryError(ownerId, content, result, strand, signal, k) ==
  LET ex == extract(content, result)
      effectiveStrand == IF strand # NoStrand THEN strand ELSE ex.strand
      before == [engrams |-> engrams, nextId |-> nextId, storedEngrams |-> <<>>,
                 returned |-> <<>>]
  IN /\ k \in DOMAIN ex.facts
     /\ \E st \in storeFacts({before}, ownerId, SubSeq(ex.facts, 1, k - 1), 1,
                             effectiveStrand, signal, now) :
          /\ Len(st.engrams) <= MaxEngrams
          /\ \A e \in RowsOf(st.engrams) : e.accessCount <= MaxAccessCount
          /\ engrams' = abortAddMemory(before, st).engrams
          /\ nextId' = abortAddMemory(before, st).nextId
          /\ last' = [op |-> "addMemory.error", ownerId |-> ownerId,
                      content |-> content, facts |-> ex.facts, failedAt |-> k,
                      storedEngrams |-> st.storedEngrams]
     /\ UNCHANGED <<calls, now, synapses, requests, chronicles, nexuses>>

\* an addMemory call of one fact up to the end of its duplicate check,
\* lines 38-57
AddMemoryCheck(ownerId, content) ==
  /\ Len(calls) < MaxCalls
  /\ Len(engrams) + Len(calls) < MaxEngrams
  /\ \E existing \in checkDuplicate(engrams, ownerId, content, embed(content)) :
       calls' = Append(calls, [op |-> "addMemory", ownerId |-> ownerId,
                               fact |-> content, existing |-> existing])
  /\ last' = [op |-> "addMemory.check", ownerId |-> ownerId, content |-> content]
  /\ UNCHANGED <<now, engramVars, chronicles, nexuses>>

\* the call resumed, lines 59-81: the duplicate reinforced or the fact
\* stored, and the call over (one stored engram forms no synapse)
AddMemoryStore(i) ==
  /\ i \in DOMAIN calls
  /\ calls[i].op = "addMemory"
  /\ LET st == storeChecked([engrams |-> engrams, nextId |-> nextId,
                             storedEngrams |-> <<>>, returned |-> <<>>],
                            calls[i].ownerId, calls[i].fact, "general", UNDEFINED,
                            calls[i].existing, now)
     IN /\ \A e \in RowsOf(st.engrams) : e.accessCount <= MaxAccessCount
        /\ engrams' = st.engrams
        /\ nextId' = st.nextId
        /\ last' = [op |-> "addMemory.store", ownerId |-> calls[i].ownerId,
                    content |-> calls[i].fact, existing |-> calls[i].existing,
                    storedEngrams |-> st.storedEngrams,
                    same |-> {e.id : e \in findByContentHash(engrams, calls[i].ownerId,
                                                             sha256(calls[i].fact))}]
  /\ calls' = RemoveAt(calls, i)
  /\ UNCHANGED <<now, synapses, requests, chronicles, nexuses>>

\* MemoryService.updateEngram (PATCH /engrams/:id)
UpdateEngram(id, content, strand, signal) ==
  /\ requests < MaxRequests
  /\ requests' = requests + 1
  /\ engrams' = updateEngram(engrams, id,
                  [content |-> content,
                   contentHash |-> IF content # NoText THEN sha256(content)
                                   ELSE NoVector,
                   embedding |-> IF content # NoText THEN embed(content)
                                 ELSE NoVector,
                   strand |-> strand, signal |-> signal])
  /\ last' = [op |-> "updateEngram", id |-> id, ok |-> HasEngram(engrams, id)]
  /\ UNCHANGED <<calls, now, synapses, chronicles, nexuses, nextId>>

\* MemoryService.deleteEngram (DELETE /engrams/:id)
DeleteEngram(id) ==
  /\ requests < MaxRequests
  /\ requests' = requests + 1
  /\ engrams' = deleteEngram(engrams, id)
  /\ synapses' = cascadeSynapses(synapses, id)
  /\ last' = [op |-> "deleteEngram", id |-> id, ok |-> HasEngram(engrams, id),
              cascaded |-> Len(synapses) - Len(synapses')]
  /\ UNCHANGED <<calls, now, chronicles, nexuses, nextId>>

\* MemoryService.reinforceEngram (POST /engrams/:id/reinforce)
ReinforceEngram(id, boost) ==
  /\ requests < MaxRequests
  /\ requests' = requests + 1
  /\ engrams' = reinforceEngram(engrams, id, boost)
  /\ last' = [op |-> "reinforceEngram", id |-> id, boost |-> boost,
              ok |-> HasEngram(engrams, id),
              before |-> IF HasEngram(engrams, id)
                         THEN getEngram(engrams, id).signal ELSE UNDEFINED]
  /\ UNCHANGED <<calls, now, synapses, chronicles, nexuses, nextId>>

\* MemoryService.runDecay (POST /decay/run)
RunDecay(ownerId) ==
  /\ requests < MaxRequests
  /\ requests' = requests + 1
  /\ engrams' = runDecay(engrams, ownerId, 1)
  /\ last' = [op |-> "runDecay", ownerId |-> ownerId]
  /\ UNCHANGED <<calls, now, synapses, chronicles, nexuses, nextId>>

\* ------------------------------------------------------- text and numbers

\* text.split(/\s+/) after punctuation became a space: the words of the
\* texts a request may carry
Words(text) ==
  CASE text = "Samsung phone" -> <<"Samsung", "phone">>
    [] text = "phone phone iPhone" -> <<"phone", "phone", "iPhone">>
    [] text = "hiking, Samsung" -> <<"hiking", "Samsung">>
    [] text = "The I" -> <<"The", "I">>
    [] OTHER -> <<text>>

toLowerCase(word) ==
  CASE word = "Hiking" -> "hiking"
    [] word = "Samsung" -> "samsung"
    [] word = "iPhone" -> "iphone"
    [] word = "The" -> "the"
    [] word = "I" -> "i"
    [] OTHER -> word

\* the stop words that occur in the model's texts
STOPWORDS == {"a", "an", "the", "is", "i", "me", "my"}

\* the lower-cased words of length <= 1
ShortTokens == {"", "a", "i"}

\* tokenize: lower-case, split, drop short tokens and stop words (duplicates
\* stay)
tokenize(text) ==
  SelectSeq([i \in DOMAIN Words(text) |-> toLowerCase(Words(text)[i])],
            LAMBDA token : token \notin ShortTokens /\ token \notin STOPWORDS)

\* computeTermFrequencies(tokens).get(term) || 0
TermFrequency(tokens, term) == Len(SelectSeq(tokens, LAMBDA x : x = term))

RECURSIVE SumSeq(_)
SumSeq(s) == IF s = <<>> THEN 0 ELSE Head(s) + SumSeq(Tail(s))

\* x * y for two numbers in units of 1/One, truncated, every intermediate
\* product below 2^31
MulFix(x, y) ==
  (x \div 1000) * (y \div 1000)
  + ((x \div 1000) * (y % 1000) + (x % 1000) * (y \div 1000)) \div 1000
  + ((x % 1000) * (y % 1000)) \div One

\* a / b in units of 1/One for 0 <= a, 0 < b, truncated (long division by
\* two decimal digits a step)
DivFix(a, b) ==
  LET r0 == a % b
      r1 == (r0 * 100) % b
      r2 == (r1 * 100) % b
  IN (a \div b) * One + ((r0 * 100) \div b) * 10000
     + ((r1 * 100) \div b) * 100 + (r2 * 100) \div b

\* Math.log(num / den) in units of 1/One, for the ratios BM25 asks of up to
\* seven documents
Ln(num, den) ==
  CASE <<num, den>> = <<4, 3>> -> 287682
    [] <<num, den>> = <<6, 3>> -> 693147
    [] <<num, den>> = <<6, 5>> -> 182321
    [] <<num, den>> = <<8, 3>> -> 980829
    [] <<num, den>> = <<8, 5>> -> 470003
    [] <<num, den>> = <<8, 7>> -> 133531
    [] <<num, den>> = <<10, 3>> -> 1203972
    [] <<num, den>> = <<10, 5>> -> 693147
    [] <<num, den>> = <<10, 7>> -> 356674
    [] <<num, den>> = <<10, 9>> -> 105360
    [] <<num, den>> = <<12, 3>> -> 1386294
    [] <<num, den>> = <<12, 5>> -> 875468
    [] <<num, den>> = <<12, 7>> -> 538996
    [] <<num, den>> = <<12, 9>> -> 287682
    [] <<num, den>> = <<12, 11>> -> 87011
    [] <<num, den>> = <<14, 3>> -> 1540445
    [] <<num, den>> = <<14, 5>> -> 1029619
    [] <<num, den>> = <<14, 7>> -> 693147
    [] <<num, den>> = <<14, 9>> -> 441832
    [] <<num, den>> = <<14, 11>> -> 241162
    [] <<num, den>> = <<14, 13>> -> 74107
    [] <<num, den>> = <<16, 3>> -> 1673976
    [] <<num, den>> = <<16, 5>> -> 1163150
    [] <<num, den>> = <<16, 7>> -> 826678
    [] <<num, den>> = <<16, 9>> -> 575364
    [] <<num, den>> = <<16, 11>> -> 374693
    [] <<num, den>> = <<16, 13>> -> 207639
    [] <<num, den>> = <<16, 15>> -> 64538

\* Math.exp(-days / 7) in units of 1/One for whole days
ExpHalfLife(days) ==
  CASE days = 0 -> 1000000
    [] days = 1 -> 866877
    [] days = 2 -> 751477
    [] days = 3 -> 651439
    [] days = 4 -> 564718

minMaxNormalize(values) ==
  IF Len(values) = 0 THEN <<>>
  ELSE IF Len(values) = 1 THEN <<IF values[1] > 0 THEN One ELSE 0>>
  ELSE LET min == CHOOSE v \in {values[i] : i \in DOMAIN values} :
                    \A i \in DOMAIN values : v <= values[i]
           max == CHOOSE v \in {values[i] : i \in DOMAIN values} :
                    \A i \in DOMAIN values : v >= values[i]
       IN IF max - min = 0 THEN [i \in DOMAIN values |-> 0]
          ELSE [i \in DOMAIN values |-> DivFix(values[i] - min, max - min)]

clamp(value, min, max) == Min(Max(value, min), max)

\* slice that keeps the whole array
slice_All(seq, end) == seq

\* Array.slice(0, end)
slice(seq, end) == SubSeq(seq, 1, Min(end, Len(seq)))

\* Array.sort((a, b) => key(b) - key(a)): the stable descending sort of seq
\* by the keys at the same positions
RECURSIVE SortDescBy(_, _)
SortDescBy(seq, keys) ==
  IF seq = <<>> THEN <<>>
  ELSE LET i == CHOOSE i \in DOMAIN keys :
                  /\ \A j \in DOMAIN keys : keys[j] <= keys[i]
                  /\ \A j \in 1..(i - 1) : keys[j] < keys[i]
       IN <<seq[i]>> \o SortDescBy(SubSeq(seq, 1, i - 1) \o SubSeq(seq, i + 1, Len(seq)),
                                   SubSeq(keys, 1, i - 1) \o SubSeq(keys, i + 1, Len(keys)))

\* ------------------------------------------------------------------ BM25

\* idf = ln((N - df + 0.5) / (df + 0.5) + 1) = ln((2N + 2) / (2df + 1))
Idf(N, docFreq) == Ln(2 * N + 2, 2 * docFreq + 1)

\* tfNorm with k1 = 1.5, b = 0.75 and avgDocLength = total / N:
\* 2.5 tf / (tf + 1.5 (0.25 + 0.75 len N / total)), both sides times 8 total
TfNorm(termFreq, docLength, total, N) ==
  DivFix(20 * termFreq * total,
         8 * termFreq * total + 3 * total + 9 * docLength * N)

\* the summand of one query term for the document at position idx
TermScore(term, docTokens, idx) ==
  LET termFreq == TermFrequency(docTokens[idx], term)
      docFreq == Cardinality({d \in DOMAIN docTokens :
                                TermFrequency(docTokens[d], term) > 0})
      total == SumSeq([d \in DOMAIN docTokens |-> Len(docTokens[d])])
  IN IF termFreq = 0 \/ docFreq = 0 THEN 0
     ELSE MulFix(Idf(Len(docTokens), docFreq),
                 TfNorm(termFreq, Len(docTokens[idx]), total, Len(docTokens)))

\* BM25Scorer.score: the score of each document, by position
score(query, documents) ==
  LET queryTokens == tokenize(query)
      docTokens == [d \in DOMAIN documents |-> tokenize(documents[d].content)]
  IN IF queryTokens = <<>> THEN [d \in DOMAIN documents |-> 0]
     ELSE [d \in DOMAIN documents |->
             SumSeq([k \in DOMAIN queryTokens |->
                       TermScore(queryTokens[k], docTokens, d)])]

\* ------------------------------------------------------ retrieval pipeline

\* DEFAULT_CONFIG, the weights in percent
VectorWeight == 30
KeywordWeight == 30
RecencyWeight == 10
SignalWeight == 15
SynapseWeight == 15
RecencyMaxDays == 90
SynapseDepth == 2
SynapseDecay == 80
\* defaults of a search request
SearchLimit == 10
MinFinalScore == 350000
\* the seeds of the synapse expansion and the chronicle hits returned
TopSeeds == 5
TopChronicles == 5

\* recencyWeight * exp(-days / halfLife) * clamp(1 - days / maxDays, 0, 1),
\* one tick of the clock being one day
RecencyBoost(lastAccessedAt, t) ==
  LET daysSinceAccess == t - lastAccessedAt
  IN MulFix(MulRate(ExpHalfLife(daysSinceAccess), RecencyWeight),
            clamp(One - DivFix(daysSinceAccess, RecencyMaxDays), 0, One))

\* matches: the query tokens, each occurrence counted, that equal some
\* field token
Matches(queryTokens, fieldTokens) ==
  Len(SelectSeq(queryTokens, LAMBDA qt : TermFrequency(fieldTokens, qt) > 0))

\* RetrievalPipeline.searchChronicles: the hit lists the call may return
searchChronicles(table, ownerId, query, t) ==
  {LET queryTokens == tokenize(query)
       matches == [i \in DOMAIN current |->
                     Matches(queryTokens,
                             tokenize(current[i].entity) \o
                             tokenize(current[i].attribute) \o
                             tokenize(current[i].value))]
       scored == SelectSeq([i \in DOMAIN current |->
                              [chronicle |-> rowToChronicle(current[i]),
                               matches |-> matches[i],
                               relevance |-> IF queryTokens = <<>> THEN 0
                                             ELSE DivFix(matches[i], Len(queryTokens))]],
                           LAMBDA h : h.matches > 0)
       sorted == SortDescBy(scored, [i \in DOMAIN scored |-> scored[i].relevance])
   IN IF queryTokens = <<>> THEN <<>>
      ELSE [i \in DOMAIN slice(sorted, TopChronicles) |->
              [chronicle |-> sorted[i].chronicle, relevance |-> sorted[i].relevance]] :
   current \in getCurrentChronicles(table, ownerId, t)}

\* the inner loop of expandFrom without the visited test
RECURSIVE expandNode_Revisit(_, _, _, _, _)
expandNode_Revisit(acc, node, syns, k, decayFactor) ==
  IF k > Len(syns) THEN acc
  ELSE LET expansion == [engramId |-> syns[k].targetId,
                         boost |-> MulRate(MulFix(node.boost, syns[k].weight),
                                           decayFactor),
                         depth |-> node.depth + 1,
                         path |-> Append(node.path, syns[k].targetId)]
       IN expandNode_Revisit([visited |-> acc.visited \cup {syns[k].targetId},
                              expansions |-> Append(acc.expansions, expansion),
                              nextFrontier |-> Append(acc.nextFrontier, expansion)],
                             node, syns, k + 1, decayFactor)

\* the inner loop of expandFrom: the synapses of one node from position k
\* on
RECURSIVE expandNode(_, _, _, _, _)
expandNode(acc, node, syns, k, decayFactor) ==
  IF k > Len(syns) THEN acc
  ELSE IF syns[k].targetId \in acc.visited
  THEN expandNode(acc, node, syns, k + 1, decayFactor)
  ELSE LET expansion == [engramId |-> syns[k].targetId,
                         boost |-> MulRate(MulFix(node.boost, syns[k].weight),
                                           decayFactor),
                         depth |-> node.depth + 1,
                         path |-> Append(node.path, syns[k].targetId)]
       IN expandNode([visited |-> acc.visited \cup {syns[k].targetId},
                      expansions |-> Append(acc.expansions, expansion),
                      nextFrontier |-> Append(acc.nextFrontier, expansion)],
                     node, syns, k + 1, decayFactor)

\* the while loop of expandFrom: the frontier from position i on, then the
\* next frontier
RECURSIVE expandFrontier(_, _, _, _, _, _)
expandFrontier(table, acc, frontier, i, depth, decayFactor) ==
  IF frontier = <<>> THEN acc.expansions
  ELSE IF i > Len(frontier)
  THEN expandFrontier(table, [acc EXCEPT !.nextFrontier = <<>>], acc.nextFrontier, 1,
                      depth, decayFactor)
  ELSE IF frontier[i].depth >= depth
  THEN expandFrontier(table, acc, frontier, i + 1, depth, decayFactor)
  ELSE expandFrontier(table,
                      expandNode(acc, frontier[i],
                                 getSynapsesFrom(table, frontier[i].engramId), 1,
                                 decayFactor),
                      frontier, i + 1, depth, decayFactor)

\* expandFrom with the depth test one level late
expandFrom_OneDeeper(table, seedIds, depth, decayFactor) ==
  expandFrontier(table,
                 [visited |-> {seedIds[i] : i \in DOMAIN seedIds},
                  expansions |-> <<>>, nextFrontier |-> <<>>],
                 [i \in DOMAIN seedIds |->
                    [engramId |-> seedIds[i], boost |-> One, depth |-> 0,
                     path |-> <<seedIds[i]>>]],
                 1, depth + 1, decayFactor)

\* AssociationService.expandFrom: breadth first from the seeds
expandFrom(table, seedIds, depth, decayFactor) ==
  expandFrontier(table,
                 [visited |-> {seedIds[i] : i \in DOMAIN seedIds},
                  expansions |-> <<>>, nextFrontier |-> <<>>],
                 [i \in DOMAIN seedIds |->
                    [engramId |-> seedIds[i], boost |-> One, depth |-> 0,
                     path |-> <<seedIds[i]>>]],
                 1, depth, decayFactor)

\* RetrievalPipeline.expandSynapses: the same loop, written out a second
\* time in the pipeline, with the depth and the decay of its configuration
expandSynapses(table, seedIds) ==
  expandFrom(table, seedIds, SynapseDepth, SynapseDecay)

\* synapseBoosts.get(id) || 0: the largest boost of the expansions of id
SynapseBoostOf(expansions, id) ==
  LET boosts == {expansions[i].boost : i \in {j \in DOMAIN expansions :
                                               expansions[j].engramId = id}}
  IN IF boosts = {} THEN 0
     ELSE CHOOSE b \in boosts : \A c \in boosts : c <= b

\* the engram fields of a hit the claims read
HitEngram(e) == [id |-> e.id, ownerId |-> e.ownerId, strand |-> e.strand]

\* finalScore of the main path without the synapse component
FinalScore_NoSynapse(vectorScore, keywordScore, recencyBoost, signalBoost, synapseBoost) ==
  MulRate(vectorScore, VectorWeight) + MulRate(keywordScore, KeywordWeight)
  + recencyBoost + signalBoost

\* finalScore: the weighted vector and keyword scores plus the three boosts
FinalScore(vectorScore, keywordScore, recencyBoost, signalBoost, synapseBoost) ==
  MulRate(vectorScore, VectorWeight) + MulRate(keywordScore, KeywordWeight)
  + recencyBoost + signalBoost + synapseBoost

\* a fallback that finds nothing and drops the chronicle matches
fallbackSearch_NoChronicles(allEngrams, query, limit, chronicleHits, t) ==
  [hits |-> <<>>, chronicles |-> <<>>, total |-> 0, fallback |-> TRUE]

\* the keyword search with the final-score floor of the main path applied
fallbackSearch_Floor(allEngrams, query, limit, chronicleHits, t) ==
  LET fallbackBm25 == score(query.query, allEngrams)
      positions == SelectSeq([i \in DOMAIN allEngrams |-> i],
                             LAMBDA i : fallbackBm25[i] > 0)
      sorted == SortDescBy(positions,
                           [k \in DOMAIN positions |-> fallbackBm25[positions[k]]])
      minFinalScore == IF query.minFinalScore = UNDEFINED THEN MinFinalScore
                       ELSE query.minFinalScore
      keywordOnly ==
        [k \in DOMAIN slice(sorted, limit) |->
           LET engram == allEngrams[sorted[k]]
               normalizedKw == DivFix(fallbackBm25[sorted[k]], fallbackBm25[sorted[1]])
               recencyBoost == RecencyBoost(engram.lastAccessedAt, t)
               signalBoost == MulRate(engram.signal, SignalWeight)
           IN [engram |-> HitEngram(engram),
               trace |-> [vectorScore |-> 0, keywordScore |-> normalizedKw,
                          recencyBoost |-> recencyBoost,
                          signalBoost |-> signalBoost, synapseBoost |-> 0,
                          finalScore |-> MulRate(normalizedKw, KeywordWeight)
                                         + recencyBoost + signalBoost]]]
      kept == SelectSeq(keywordOnly, LAMBDA h : h.trace.finalScore >= minFinalScore)
  IN [hits |-> kept, chronicles |-> chronicleHits, total |-> Len(kept),
      fallback |-> TRUE]

\* search, lines 145-189: pure keyword search over the listed engrams
fallbackSearch(allEngrams, query, limit, chronicleHits, t) ==
  LET fallbackBm25 == score(query.query, allEngrams)
      positions == SelectSeq([i \in DOMAIN allEngrams |-> i],
                             LAMBDA i : fallbackBm25[i] > 0)
      maxBm25 == CHOOSE m \in {fallbackBm25[positions[k]] : k \in DOMAIN positions} :
                   \A k \in DOMAIN positions : fallbackBm25[positions[k]] <= m
      sorted == SortDescBy(positions,
                           [k \in DOMAIN positions |-> fallbackBm25[positions[k]]])
      keywordOnly ==
        [k \in DOMAIN slice(sorted, limit) |->
           LET engram == allEngrams[sorted[k]]
               normalizedKw == IF maxBm25 > 0
                               THEN DivFix(fallbackBm25[sorted[k]], maxBm25) ELSE 0
               recencyBoost == RecencyBoost(engram.lastAccessedAt, t)
               signalBoost == MulRate(engram.signal, SignalWeight)
           IN [engram |-> HitEngram(engram),
               trace |-> [vectorScore |-> 0, keywordScore |-> normalizedKw,
                          recencyBoost |-> recencyBoost,
                          signalBoost |-> signalBoost, synapseBoost |-> 0,
                          finalScore |-> MulRate(normalizedKw, KeywordWeight)
                                         + recencyBoost + signalBoost]]]
  IN IF positions = <<>>
     THEN [hits |-> <<>>, chronicles |-> chronicleHits, total |-> 0,
           fallback |-> TRUE]
     ELSE [hits |-> keywordOnly, chronicles |-> chronicleHits,
           total |-> Len(keywordOnly), fallback |-> TRUE]

\* search, lines 191-279: the candidates scored, sorted, filtered, trimmed
mainSearch(filtered, synapseTable, query, limit, chronicleHits, t) ==
  LET bm25Results == score(query.query, filtered)
      vectorScores == [i \in DOMAIN filtered |->
                         cosineSimilarity(embed(query.query), filtered[i].embedding)]
      normalizedVector == minMaxNormalize(vectorScores)
      normalizedKeyword == minMaxNormalize(bm25Results)
      expansions == IF query.expandSynapses # FALSE
                    THEN expandSynapses(synapseTable,
                           [i \in DOMAIN slice(filtered, TopSeeds) |-> filtered[i].id])
                    ELSE <<>>
      scored ==
        [i \in DOMAIN filtered |->
           LET recencyBoost == RecencyBoost(filtered[i].lastAccessedAt, t)
               signalBoost == MulRate(filtered[i].signal, SignalWeight)
               synapseBoost == MulRate(SynapseBoostOf(expansions, filtered[i].id),
                                       SynapseWeight)
           IN [engram |-> HitEngram(filtered[i]),
               trace |-> [vectorScore |-> normalizedVector[i],
                          keywordScore |-> normalizedKeyword[i],
                          recencyBoost |-> recencyBoost,
                          signalBoost |-> signalBoost,
                          synapseBoost |-> synapseBoost,
                          finalScore |-> FinalScore(normalizedVector[i],
                                                    normalizedKeyword[i],
                                                    recencyBoost, signalBoost,
                                                    synapseBoost)]]]
      sorted == SortDescBy(scored, [i \in DOMAIN scored |-> scored[i].trace.finalScore])
      minFinalScore == IF query.minFinalScore = UNDEFINED THEN MinFinalScore
                       ELSE query.minFinalScore
      filteredByFinalScore ==
        IF minFinalScore > 0
        THEN SelectSeq(sorted, LAMBDA s : s.trace.finalScore >= minFinalScore)
        ELSE sorted
      topHits == slice(filteredByFinalScore, limit)
  IN [hits |-> topHits, chronicles |-> chronicleHits, total |-> Len(topHits),
      fallback |-> FALSE]

\* RetrievalPipeline.search: every result the call may return (fallback is
\* no field of the response: it records the path taken)
search(engramTable, synapseTable, chronicleTable, query, t) ==
  LET limit == IF query.limit = UNDEFINED THEN SearchLimit ELSE query.limit
      candidateLimit == limit * 3
      minScore == IF query.minScore = UNDEFINED THEN 0 ELSE query.minScore
      queryEmbedding == embed(query.query)
  IN UNION
     {LET filtered == IF minScore > 0
                      THEN SelectSeq(vectorResults,
                             LAMBDA vr : cosineSimilarity(queryEmbedding, vr.embedding)
                                         >= minScore)
                      ELSE vectorResults
      IN IF filtered = <<>>
         THEN {fallbackSearch(allEngrams, query, limit, chronicleHits, t) :
                 allEngrams \in listEngrams(engramTable, query.ownerId,
                                            candidateLimit, NoStrand)}
         ELSE {mainSearch(filtered, synapseTable, query, limit, chronicleHits, t)} :
      vectorResults \in vectorSearch(engramTable, query.ownerId, queryEmbedding,
                                     candidateLimit, query.strand),
      chronicleHits \in searchChronicles(chronicleTable, query.ownerId, query.query, t)}

\* a set of ids visited one by one by RetrievalPipeline.reinforceAccessed
RECURSIVE reinforceAccessed(_, _, _)
reinforceAccessed(table, engramIds, t) ==
  IF engramIds = {} THEN table
  ELSE LET id == CHOOSE x \in engramIds : TRUE
       IN reinforceAccessed(recordAccess(table, id, t), engramIds \ {id}, t)

\* the body of POST /engrams/search, absent fields UNDEFINED / NoStrand
Query(ownerId, query, limit, strand, minScore, minFinalScore, expand) ==
  [ownerId |-> ownerId, query |-> query, limit |-> limit, strand |-> strand,
   minScore |-> minScore, minFinalScore |-> minFinalScore,
   expandSynapses |-> expand]

\* MemoryService.search (POST /engrams/search): the pipeline, then the
\* access of each hit recorded
Search(query) ==
  /\ requests < MaxRequests
  /\ requests' = requests + 1
  /\ \E res \in search(engrams, synapses, chronicles, query, now) :
       /\ \A i \in DOMAIN res.hits :
            getEngram(engrams, res.hits[i].engram.id).accessCount < MaxAccessCount
       /\ engrams' = reinforceAccessed(engrams,
                        {res.hits[i].engram.id : i \in DOMAIN res.hits}, now)
       /\ last' = [op |-> "search", ownerId |-> query.ownerId,
                   query |-> query, result |-> res]
  /\ UNCHANGED <<calls, now, synapses, chronicles, nexuses, nextId>>

\* a search up to its first store call, lines 121-127: the query embedded
\* and vectorSearch issued and awaited; issued names the store reads the
\* call has issued so far
SearchEmbed(query) ==
  /\ requests < MaxRequests
  /\ Len(calls) < MaxCalls
  /\ requests' = requests + 1
  /\ calls' = Append(calls, [op |-> "search", pc |-> "vectorSearch",
                             query |-> query, issued |-> {"vectorSearch"},
                             filtered |-> <<>>])
  /\ last' = [op |-> "search.embed", ownerId |-> query.ownerId]
  /\ UNCHANGED <<now, engrams, synapses, chronicles, nexuses, nextId>>

\* the search resumed, lines 127-143: the candidates read and filtered,
\* then searchChronicles issued and awaited
SearchVectorDone(i) ==
  /\ i \in DOMAIN calls
  /\ calls[i].op = "search"
  /\ calls[i].pc = "vectorSearch"
  /\ LET query == calls[i].query
         limit == IF query.limit = UNDEFINED THEN SearchLimit ELSE query.limit
         minScore == IF query.minScore = UNDEFINED THEN 0 ELSE query.minScore
         queryEmbedding == embed(query.query)
     IN \E vectorResults \in vectorSearch(engrams, query.ownerId, queryEmbedding,
                                          limit * 3, query.strand) :
          calls' = [calls EXCEPT
                      ![i].pc = "searchChronicles",
                      ![i].issued = @ \cup {"getCurrentChronicles"},
                      ![i].filtered =
                        IF minScore > 0
                        THEN SelectSeq(vectorResults,
                               LAMBDA vr : cosineSimilarity(queryEmbedding, vr.embedding)
                                           >= minScore)
                        ELSE vectorResults]
  /\ last' = [op |-> "search.vectorSearch", ownerId |-> calls[i].query.ownerId]
  /\ UNCHANGED <<now, engramVars, chronicles, nexuses>>

\* what the caller of search receives when the detached reinforceAccessed
\* rejects: the rejection handled by an awaiting caller
onReinforceRejected_Awaited(result) == [error |-> "recordAccess failed"]

\* search, lines 187 and 251-253: reinforceAccessed(...).catch(...) is not
\* awaited, so its rejection ends in the catch handler and the result
\* stands
onReinforceRejected(result) == result

\* the search resumed, lines 145-279: the chronicle matches read, the hits
\* scored on the main or the fallback path, reinforceAccessed started and
\* not awaited, the result returned
SearchChroniclesDone(i) ==
  /\ i \in DOMAIN calls
  /\ calls[i].op = "search"
  /\ calls[i].pc = "searchChronicles"
  /\ LET query == calls[i].query
         limit == IF query.limit = UNDEFINED THEN SearchLimit ELSE query.limit
         filtered == calls[i].filtered
     IN \E chronicleHits \in searchChronicles(chronicles, query.ownerId,
                                              query.query, now) :
        \E res \in IF filtered = <<>>
                   THEN {fallbackSearch(allEngrams, query, limit, chronicleHits, now) :
                           allEngrams \in listEngrams(engrams, query.ownerId,
                                                      limit * 3, NoStrand)}
                   ELSE {mainSearch(filtered, synapses, query, limit,
                                    chronicleHits, now)} :
          /\ calls' = IF res.hits = <<>> THEN RemoveAt(calls, i)
                      ELSE [calls EXCEPT ![i] =
                              [op |-> "reinforceAccessed", pc |-> "recordAccess",
                               query |-> query, result |-> res,
                               engramIds |-> [k \in DOMAIN res.hits |->
                                                res.hits[k].engram.id]]]
          /\ last' = [op |-> "search", ownerId |-> query.ownerId, query |-> query,
                      result |-> res, awaited |-> calls[i].issued]
  /\ UNCHANGED <<now, engramVars, chronicles, nexuses>>

\* reinforceAccessed resumed, lines 363-367: the access of the next hit
\* recorded
ReinforceAccessedStep(i) ==
  /\ i \in DOMAIN calls
  /\ calls[i].op = "reinforceAccessed"
  /\ LET id == Head(calls[i].engramIds)
     IN /\ HasEngram(engrams, id) => getEngram(engrams, id).accessCount < MaxAccessCount
        /\ engrams' = recordAccess(engrams, id, now)
        /\ last' = [op |-> "reinforceAccessed.recordAccess", id |-> id,
                    response |-> calls[i].result]
  /\ calls' = IF Len(calls[i].engramIds) = 1 THEN RemoveAt(calls, i)
              ELSE [calls EXCEPT ![i].engramIds = Tail(@)]
  /\ UNCHANGED <<now, synapses, nextId, requests, chronicles, nexuses>>

\* reinforceAccessed resumed by a recordAccess that throws: the loop ends,
\* the hits left are not stamped, the rejection goes to the catch handler
ReinforceAccessedFail(i) ==
  /\ i \in DOMAIN calls
  /\ calls[i].op = "reinforceAccessed"
  /\ calls' = RemoveAt(calls, i)
  /\ last' = [op |-> "reinforceAccessed.catch", result |-> calls[i].result,
              response |-> onReinforceRejected(calls[i].result)]
  /\ UNCHANGED <<now, engramVars, chronicles, nexuses>>

\* AssociationService.formSynapse: the synapse stored or, for a pair
\* already linked, reinforced; the foreign keys of the synapses table refuse
\* an endpoint that is no engram
FormSynapse(sourceId, targetId, ownerId, weight) ==
  /\ HasEngram(engrams, sourceId)
  /\ HasEngram(engrams, targetId)
  /\ HasSynapse(synapses, sourceId, targetId) \/ Len(synapses) < MaxSynapses
  /\ synapses' = createSynapse(synapses, sourceId, targetId, ownerId, weight, now)
  /\ last' = [op |-> "formSynapse", sourceId |-> sourceId, targetId |-> targetId]
  /\ UNCHANGED <<calls, now, engrams, chronicles, nexuses, nextId, requests>>

\* a call of AssociationService.expandFrom: the store is only read
ExpandFrom(seedIds, depth, decayFactor) ==
  /\ last' = [op |-> "expandFrom", seedIds |-> seedIds, depth |-> depth,
              decayFactor |-> decayFactor,
              expansions |-> expandFrom(synapses, seedIds, depth, decayFactor)]
  /\ UNCHANGED <<calls, now, engramVars, chronicles, nexuses>>

\* expandFrom resumed for one frontier node with the visited test left out
expandStep_NoVisited(table, call) ==
  LET node == call.frontier[call.i]
      read == node.depth < call.depth
      acc == IF read
             THEN expandNode_Revisit([visited |-> call.visited,
                                      expansions |-> call.expansions,
                                      nextFrontier |-> call.nextFrontier],
                                     node, getSynapsesFrom(table, node.engramId), 1,
                                     call.decayFactor)
             ELSE [visited |-> call.visited, expansions |-> call.expansions,
                   nextFrontier |-> call.nextFrontier]
      atEnd == call.i = Len(call.frontier)
  IN [call EXCEPT !.visited = acc.visited,
                  !.expansions = acc.expansions,
                  !.reads = IF read THEN Append(@, node.engramId) ELSE @,
                  !.frontier = IF atEnd THEN acc.nextFrontier ELSE @,
                  !.nextFrontier = IF atEnd THEN <<>> ELSE acc.nextFrontier,
                  !.i = IF atEnd THEN 1 ELSE @ + 1]

\* expandFrom, lines 35-62, for one node of the frontier: the node at the
\* depth limit is passed over, any other has its synapses read (reads logs
\* the getSynapsesFrom calls) and its unvisited targets expanded; after the
\* last node the next frontier becomes the frontier
expandStep(table, call) ==
  LET node == call.frontier[call.i]
      read == node.depth < call.depth
      acc == IF read
             THEN expandNode([visited |-> call.visited,
                              expansions |-> call.expansions,
                              nextFrontier |-> call.nextFrontier],
                             node, getSynapsesFrom(table, node.engramId), 1,
                             call.decayFactor)
             ELSE [visited |-> call.visited, expansions |-> call.expansions,
                   nextFrontier |-> call.nextFrontier]
      atEnd == call.i = Len(call.frontier)
  IN [call EXCEPT !.visited = acc.visited,
                  !.expansions = acc.expansions,
                  !.reads = IF read THEN Append(@, node.engramId) ELSE @,
                  !.frontier = IF atEnd THEN acc.nextFrontier ELSE @,
                  !.nextFrontier = IF atEnd THEN <<>> ELSE acc.nextFrontier,
                  !.i = IF atEnd THEN 1 ELSE @ + 1]

\* a call of expandFrom up to its while loop, lines 27-30
ExpandStart(seedIds, depth, decayFactor) ==
  /\ Len(calls) < MaxCalls
  /\ seedIds # <<>>
  /\ calls' = Append(calls,
                     [op |-> "expandFrom", seedIds |-> seedIds, depth |-> depth,
                      decayFactor |-> decayFactor,
                      visited |-> {seedIds[k] : k \in DOMAIN seedIds},
                      expansions |-> <<>>, reads |-> <<>>,
                      frontier |-> [k \in DOMAIN seedIds |->
                                      [engramId |-> seedIds[k], boost |-> One,
                                       depth |-> 0, path |-> <<seedIds[k]>>]],
                      nextFrontier |-> <<>>, i |-> 1])
  /\ last' = [op |-> "expandFrom.start", seedIds |-> seedIds, depth |-> depth]
  /\ UNCHANGED <<now, engramVars, chronicles, nexuses>>

\* the call resumed for the next node of its frontier; with the frontier
\* empty the while loop ends and the expansions are returned
ExpandStep(i) ==
  /\ i \in DOMAIN calls
  /\ calls[i].op = "expandFrom"
  /\ LET call == expandStep(synapses, calls[i])
     IN /\ calls' = IF call.frontier = <<>> THEN RemoveAt(calls, i)
                    ELSE [calls EXCEPT ![i] = call]
        /\ last' = [op |-> "expandFrom.step", call |-> i,
                    done |-> call.frontier = <<>>,
                    seedIds |-> call.seedIds, depth |-> call.depth,
                    reads |-> call.reads, expansions |-> call.expansions]
  /\ UNCHANGED <<now, engramVars, chronicles, nexuses>>

\* ------------------------------------------------------------ SDK client

\* what one fetch of the client may end in: a network error (fetch
\* rejects), or a response with a status and a body that response.json()
\* parses or not
NetworkError == [kind |-> "network"]
Response(status, json) == [kind |-> "http", status |-> status, json |-> json]

\* response.ok
Ok(status) == status >= 200 /\ status <= 299

\* Math.pow(2, attempt)
RECURSIVE Pow2(_)
Pow2(n) == IF n = 0 THEN 1 ELSE 2 * Pow2(n - 1)

\* HippocampusClient.request, the try block, lines 137-154: a rejected
\* fetch throws, 204 returns, response.json() throws on a body that is no
\* JSON, a status that is not ok throws a HippocampusError of that status,
\* anything else returns the parsed body
attemptOutcome(outcome) ==
  IF outcome.kind = "network"
  THEN [returned |-> FALSE, error |-> [name |-> "TypeError", statusCode |-> 0]]
  ELSE IF outcome.status = 204 THEN [returned |-> TRUE, error |-> NULL]
  ELSE IF ~outcome.json
  THEN [returned |-> FALSE, error |-> [name |-> "SyntaxError", statusCode |-> 0]]
  ELSE IF ~Ok(outcome.status)
  THEN [returned |-> FALSE,
        error |-> [name |-> "HippocampusError", statusCode |-> outcome.status]]
  ELSE [returned |-> TRUE, error |-> NULL]

\* the catch block, lines 155-160: a HippocampusError of a 4xx status is
\* thrown on
NotRetried(error) ==
  /\ error.name = "HippocampusError"
  /\ error.statusCode >= 400
  /\ error.statusCode < 500

\* a call of request up to its first fetch, lines 131-137; a client whose
\* retries is negative never enters the loop and throws 'Request failed'
RequestStart(retries, retryDelay) ==
  /\ Len(calls) < MaxCalls
  /\ IF retries < 0
     THEN /\ calls' = calls
          /\ last' = [op |-> "request", returned |-> FALSE,
                      error |-> [name |-> "Error", statusCode |-> 0],
                      retries |-> retries, retryDelay |-> retryDelay,
                      history |-> <<>>, delays |-> <<>>]
     ELSE /\ calls' = Append(calls, [op |-> "request", pc |-> "fetch",
                                     retries |-> retries, retryDelay |-> retryDelay,
                                     attempt |-> 0, history |-> <<>>,
                                     delays |-> <<>>])
          /\ last' = [op |-> "request.start", retries |-> retries]
  /\ UNCHANGED <<now, engramVars, chronicles, nexuses>>

\* the fetch of the current attempt settled with outcome: the call returns,
\* throws, sleeps before the next attempt, or leaves the loop after the
\* last attempt and throws lastError
RequestFetch(i, outcome) ==
  /\ i \in DOMAIN calls
  /\ calls[i].op = "request"
  /\ calls[i].pc = "fetch"
  /\ LET call == calls[i]
         res == attemptOutcome(outcome)
         history == Append(call.history, outcome)
         over == res.returned \/ NotRetried(res.error) \/ call.attempt >= call.retries
     IN /\ calls' = IF over THEN RemoveAt(calls, i)
                    ELSE [calls EXCEPT
                            ![i].pc = "sleep",
                            ![i].history = history,
                            ![i].delays = Append(@, call.retryDelay
                                                    * Pow2(call.attempt))]
        /\ last' = IF over
                   THEN [op |-> "request", returned |-> res.returned,
                         error |-> res.error, retries |-> call.retries,
                         retryDelay |-> call.retryDelay, history |-> history,
                         delays |-> call.delays]
                   ELSE [op |-> "request.retry", attempt |-> call.attempt]
  /\ UNCHANGED <<now, engramVars, chronicles, nexuses>>

\* the timer of the retry delay fired, line 164: the next attempt begins
RequestWake(i) ==
  /\ i \in DOMAIN calls
  /\ calls[i].op = "request"
  /\ calls[i].pc = "sleep"
  /\ calls' = [calls EXCEPT ![i].pc = "fetch", ![i].attempt = @ + 1]
  /\ last' = [op |-> "request.wake", attempt |-> calls[i].attempt + 1]
  /\ UNCHANGED <<now, engramVars, chronicles, nexuses>>

\* the wall clock advances between requests
Tick ==
  /\ now < MaxTime
  /\ now' = now + 1
  /\ last' = [op |-> "tick"]
  /\ UNCHANGED <<calls, engramVars, chronicles, nexuses>>

Init ==
  /\ now = 1
  /\ engrams = <<>>
  /\ synapses = <<>>
  /\ chronicles = <<>>
  /\ nexuses = <<>>
  /\ nextId = 1
  /\ requests = 0
  /\ calls = <<>>
  /\ last = [op |-> "init"]

NextChronicle ==
  \/ Tick
  \/ \E o \in Owners, e \in Entities, a \in Attributes, v \in Values,
        f \in OptInstant, u \in OptNullInstant :
       RecordFact(o, e, a, v, f, u)
  \/ \E id \in 1..(Len(chronicles) + 1), u \in OptNullInstant :
       UpdateChronicle(id, u)
  \/ \E id \in 1..(Len(chronicles) + 1) : ExpireChronicle(id)

\* any sequence of recordFact / updateChronicle / expireChronicle requests
SpecChronicle == Init /\ [][NextChronicle]_vars

\* boosts a reinforce request may carry
Boosts == {0, 100000, 600000}

\* the bodies of PATCH /engrams/:id requests: <<content, strand, signal>>
Updates ==
  {<<"Hiking", NoStrand, UNDEFINED>>, <<NoText, "experiential", UNDEFINED>>,
   <<NoText, NoStrand, 0>>, <<NoText, NoStrand, One>>,
   <<NoText, NoStrand, UNDEFINED>>}

NextIngest ==
  \E o \in Owners, in \in Ingestions, g \in {UNDEFINED, One} :
    AddMemory(o, in[1], in[2], NoStrand, g)

\* any sequence of addMemory requests
SpecIngest == Init /\ [][NextIngest]_vars

\* the bodies of POST /engrams requests: <<ownerId, content, strand, signal>>
Creations ==
  {<<"u1", "hiking", NoStrand, UNDEFINED>>,
   <<"u1", "hiking", "experiential", 100000>>,
   <<"u1", "cooking", "experiential", 100000>>,
   <<"u1", "cooking", NoStrand, One>>,
   <<"u2", "hiking", NoStrand, UNDEFINED>>,
   <<"u2", "cooking", "experiential", 100000>>}

\* searches that hit every engram of the owner, or the best one
SignalQueries ==
  {Query(o, "hiking", limit, NoStrand, UNDEFINED, 0, TRUE) :
     o \in Owners, limit \in {UNDEFINED, 1}}

NextSignal ==
  \/ \E c \in Creations : AddMemory(c[1], c[2], Passthrough(c[2]), c[3], c[4])
  \/ \E id \in 1..nextId, u \in Updates : UpdateEngram(id, u[1], u[2], u[3])
  \/ \E id \in 1..nextId, b \in Boosts : ReinforceEngram(id, b)
  \/ \E o \in Owners : RunDecay(o)
  \/ \E q \in SignalQueries : Search(q)

\* any sequence of addMemory / updateEngram / reinforceEngram / runDecay /
\* search requests
SpecSignal == Init /\ [][NextSignal]_vars


\* DataStore.decayEngrams called on its own
DecayEngrams(ownerId, decayFactor, minSignal) ==
  /\ requests < MaxRequests
  /\ requests' = requests + 1
  /\ engrams' = decayEngrams(engrams, ownerId, decayFactor, minSignal)
  /\ last' = [op |-> "decayEngrams", ownerId |-> ownerId,
              decayFactor |-> decayFactor, minSignal |-> minSignal,
              before |-> [i \in DOMAIN engrams |-> engrams[i].signal]]
  /\ UNCHANGED <<calls, now, synapses, chronicles, nexuses, nextId>>

\* signals createEngram may have stored, around the floor and up to One
SignalGrid == {0, 5000, MinSignal, 10001, 100000, DefaultSignal, One}

\* a store holding two engrams created with signals of the grid
InitDecayStore ==
  /\ now = 1
  /\ \E g1 \in SignalGrid, g2 \in SignalGrid, o \in Owners :
       engrams = createEngram(
                   createEngram(<<>>, 1, "u1", "hiking", sha256("hiking"),
                                embed("hiking"), NoStrand, g1, 1),
                   2, o, "cooking", sha256("cooking"), embed("cooking"),
                   NoStrand, g2, 1)
  /\ synapses = <<>>
  /\ chronicles = <<>>
  /\ nexuses = <<>>
  /\ nextId = 3
  /\ requests = 0
  /\ calls = <<>>
  /\ last = [op |-> "init"]

NextDecayStore ==
  \E o \in Owners, r \in {100, 97, 50}, m \in {MinSignal, 0} :
    DecayEngrams(o, r, m)

\* decayEngrams applied to stores drawn from the grid
SpecDecayStore == InitDecayStore /\ [][NextDecayStore]_vars


NextNexus ==
  \/ \E o \in Owners :
       RecordFact(o, "speaker", "phone", "Samsung", UNDEFINED, UNDEFINED)
  \/ \E o \in Owners :
       AddMemory(o, "hiking",
                 Answer(<<"hiking", "cooking">>, "preferential", <<>>),
                 NoStrand, UNDEFINED)
  \/ \E a \in 1..(Len(chronicles) + 1), b \in 1..(Len(chronicles) + 1) :
       CreateNexus(a, b, "same-device")
  \/ Tick

\* chronicles recorded and linked, memories ingested
SpecNexus == Init /\ [][NextNexus]_vars

\* the answers a completion provider may give: a failure, or a parsed JSON
\* object whose facts / temporalFacts are arrays or not, whose facts may be
\* missing or empty strings, whose strand may be no strand of the engine
ExtractionResults ==
  {Failure} \cup
  {Shaped(Answer(f, s, tf), a) :
     f \in {<<>>, <<"">>, <<"hiking">>, <<"hiking", "cooking">>},
     s \in {"factual", "general", "mood"},
     tf \in {<<>>, <<[entity |-> "speaker", attribute |-> "phone",
                      value |-> "Samsung"]>>},
     a \in SUBSET {"facts", "temporalFacts"}}

\* a content and the provider's answer to it, before extraction
InitExtract ==
  /\ now = 1
  /\ engrams = <<>>
  /\ synapses = <<>>
  /\ chronicles = <<>>
  /\ nexuses = <<>>
  /\ nextId = 1
  /\ requests = 0
  /\ calls = <<>>
  /\ last \in {[op |-> "extractInput", content |-> c, result |-> r] :
                c \in Texts, r \in ExtractionResults}

\* FactExtractionService.extract applied to the content
Extract ==
  /\ last.op = "extractInput"
  /\ last' = [op |-> "extract", content |-> last.content,
              result |-> last.result,
              out |-> extract(last.content, last.result)]
  /\ UNCHANGED <<calls, now, engrams, synapses, chronicles, nexuses, nextId, requests>>

\* the fact extractor alone, over every shape of answer
SpecExtract == InitExtract /\ [][Extract]_vars

\* the memories the search model ingests, <<ownerId, content, answer>>: two
\* facts of u1 with a synapse between them and a temporal fact, one of u2
SearchIngestions ==
  {<<"u1", "hiking", Answer(<<"hiking", "cooking">>, "preferential",
                            <<[entity |-> "speaker", attribute |-> "phone",
                               value |-> "Samsung"]>>)>>,
   <<"u2", "hiking", Passthrough("hiking")>>}

\* the searches of the model: defaults, a page of one, a strand no engram
\* has, a similarity floor, no final-score floor, a final-score floor of
\* 0.9, no synapse expansion, a query of stop words, queries about chronicles
SearchQueries ==
  {Query("u1", "hiking", UNDEFINED, NoStrand, UNDEFINED, UNDEFINED, TRUE),
   Query("u1", "cooking", 1, NoStrand, UNDEFINED, 0, TRUE),
   Query("u1", "cooking", UNDEFINED, NoStrand, UNDEFINED, 0, FALSE),
   Query("u1", "hiking", UNDEFINED, "procedural", UNDEFINED, UNDEFINED, TRUE),
   Query("u1", "hiking, Samsung", UNDEFINED, NoStrand, 900000, 900000, TRUE),
   Query("u1", "Samsung phone", UNDEFINED, NoStrand, 900000, UNDEFINED, TRUE),
   Query("u1", "phone phone iPhone", 1, NoStrand, UNDEFINED, UNDEFINED, TRUE),
   Query("u1", "The I", UNDEFINED, NoStrand, UNDEFINED, UNDEFINED, TRUE),
   Query("u2", "hiking", UNDEFINED, NoStrand, UNDEFINED, UNDEFINED, TRUE),
   Query("u2", "Samsung phone", UNDEFINED, NoStrand, 900000, UNDEFINED, TRUE)}

NextSearch ==
  \/ \E in \in SearchIngestions :
       AddMemory(in[1], in[2], in[3], NoStrand, UNDEFINED)
  \/ \E r \in {<<"u1", "iPhone">>, <<"u2", "Samsung">>} :
       RecordFact(r[1], "speaker", "phone", r[2], UNDEFINED, UNDEFINED)
  \/ \E q \in SearchQueries : Search(q)
  \/ Tick

\* memories ingested, facts recorded, and searches over them as time passes
SpecSearch == Init /\ [][NextSearch]_vars

\* the searches of the stepwise model: one that takes the main path and one
\* whose strand no engram has, which takes the fallback
StepQueries ==
  {Query("u1", "hiking", UNDEFINED, NoStrand, UNDEFINED, 0, TRUE),
   Query("u1", "hiking", UNDEFINED, "procedural", UNDEFINED, UNDEFINED, TRUE)}

NextSearchSteps ==
  \/ AddMemory("u1", "hiking",
               Answer(<<"hiking", "cooking">>, "preferential",
                      <<[entity |-> "speaker", attribute |-> "phone",
                         value |-> "Samsung"]>>), NoStrand, UNDEFINED)
  \/ RecordFact("u1", "speaker", "phone", "iPhone", UNDEFINED, UNDEFINED)
  \/ \E q \in StepQueries : SearchEmbed(q)
  \/ \E i \in 1..MaxCalls : SearchVectorDone(i)
  \/ \E i \in 1..MaxCalls : SearchChroniclesDone(i)
  \/ \E i \in 1..MaxCalls : ReinforceAccessedStep(i)
  \/ \E i \in 1..MaxCalls : ReinforceAccessedFail(i)
  \/ Tick

\* searches taken one await at a time while memories are ingested and
\* facts recorded between their steps
SpecSearchSteps == Init /\ [][NextSearchSteps]_vars

\* six memories of u1 as three addMemory calls of two facts each leave
\* them (a synapse from the first fact of a call to the second), the
\* signals of the first call being those the caller asked for
ExpandFacts == <<"hiking", "reading", "cooking", "swimming", "running", "painting">>

InitExpand ==
  /\ now = 2
  /\ \E g \in {UNDEFINED, MinSignal, One}, h \in {UNDEFINED, MinSignal, One} :
       engrams = [i \in DOMAIN ExpandFacts |->
                    createEngram(<<>>, i, "u1", ExpandFacts[i],
                                 sha256(ExpandFacts[i]), embed(ExpandFacts[i]),
                                 "factual",
                                 IF i = 1 THEN g ELSE IF i = 2 THEN h ELSE UNDEFINED,
                                 IF i <= 2 THEN 1 ELSE 2)[1]]
  /\ synapses = createSynapse(
                  createSynapse(
                    createSynapse(<<>>, 1, 2, "u1", FormWeight, 1),
                    3, 4, "u1", FormWeight, 2),
                  5, 6, "u1", FormWeight, 2)
  /\ chronicles = <<>>
  /\ nexuses = <<>>
  /\ nextId = 7
  /\ requests = 0
  /\ calls = <<>>
  /\ last = [op |-> "init"]

\* searches over more candidates than the expansion has seeds: the whole
\* store with and without expansion, pages of two and of one, a strand no
\* engram has
ExpandQueries ==
  {Query("u1", "hiking", UNDEFINED, NoStrand, UNDEFINED, 0, TRUE),
   Query("u1", "hiking", UNDEFINED, NoStrand, UNDEFINED, 0, FALSE),
   Query("u1", "hiking", 2, NoStrand, UNDEFINED, UNDEFINED, TRUE),
   Query("u1", "painting", 1, NoStrand, UNDEFINED, 0, TRUE),
   Query("u1", "reading", UNDEFINED, "procedural", UNDEFINED, UNDEFINED, TRUE)}

NextExpand == \E q \in ExpandQueries : Search(q)

\* searches over a store of six linked memories
SpecExpand == InitExpand /\ [][NextExpand]_vars

\* two tenants that store the same memory and record facts of the same
\* entity: <<ownerId, content, answer>>
TenantIngestions ==
  {<<"u1", "hiking", Answer(<<"hiking">>, "factual",
                            <<[entity |-> "speaker", attribute |-> "phone",
                               value |-> "Samsung"]>>)>>,
   <<"u2", "hiking", Answer(<<"hiking">>, "factual",
                            <<[entity |-> "speaker", attribute |-> "phone",
                               value |-> "iPhone"]>>)>>}

\* searches of either tenant: over the candidates and the chronicles, and
\* through the fallback
TenantQueries ==
  UNION {{Query(o, "hiking, Samsung", UNDEFINED, NoStrand, UNDEFINED, 0, TRUE),
          Query(o, "phone phone iPhone", UNDEFINED, "procedural", UNDEFINED,
                UNDEFINED, TRUE),
          Query(o, "hiking", UNDEFINED, "procedural", UNDEFINED, UNDEFINED, TRUE)} :
         o \in Owners}

NextTenants ==
  \/ \E in \in TenantIngestions :
       AddMemory(in[1], in[2], in[3], NoStrand, UNDEFINED)
  \/ \E o \in Owners : RunDecay(o)
  \/ \E q \in TenantQueries : Search(q)
  \/ Tick

\* two tenants ingesting, decaying and searching side by side
SpecTenants == Init /\ [][NextTenants]_vars

\* five memories of u1 and no synapse yet
InitGraph ==
  /\ now = 1
  /\ engrams = [i \in 1..5 |->
                  createEngram(<<>>, i, "u1", ExpandFacts[i], sha256(ExpandFacts[i]),
                               embed(ExpandFacts[i]), "factual", UNDEFINED, 1)[1]]
  /\ synapses = <<>>
  /\ chronicles = <<>>
  /\ nexuses = <<>>
  /\ nextId = 6
  /\ requests = 0
  /\ calls = <<>>
  /\ last = [op |-> "init"]

\* the pairs linked: a diamond from 1 to 4 over 2 and over 3
GraphEdges == {<<1, 2>>, <<1, 3>>, <<2, 4>>, <<3, 4>>}

\* the seed lists of the expansions
SeedLists == {<<1>>, <<1, 4>>, <<2, 3>>, <<3, 2>>}

\* the depths of the expansions
Depths == 0..2

\* a search whose three candidates are all seeds
GraphQueries == {Query("u1", "swimming", 1, NoStrand, UNDEFINED, 0, TRUE)}

NextGraph ==
  \/ \E edge \in GraphEdges : FormSynapse(edge[1], edge[2], "u1", FormWeight)
  \/ \E seedIds \in SeedLists, depth \in Depths :
       ExpandFrom(seedIds, depth, SynapseDecay)
  \/ \E q \in GraphQueries : Search(q)


\* synapses that close a cycle of three engrams, with a self-loop on it
CycleEdges == {<<1, 1>>, <<1, 2>>, <<2, 3>>, <<3, 1>>}

\* the seed lists of the stepwise expansions: one seed, two seeds, a seed
\* named twice
CycleSeeds == {<<1>>, <<2, 3>>, <<1, 1>>}

\* depth limits: one level, more levels than the cycle is long
CycleDepths == {1, 5}

NextExpandSteps ==
  \/ \E e \in CycleEdges : /\ ~HasSynapse(synapses, e[1], e[2])
                            /\ FormSynapse(e[1], e[2], "u1", FormWeight)
  \/ \E seedIds \in CycleSeeds, depth \in CycleDepths :
       ExpandStart(seedIds, depth, SynapseDecay)
  \/ \E i \in 1..MaxCalls : ExpandStep(i)

\* expansions taken one store read at a time over a graph with cycles that
\* grows between the reads
SpecExpandSteps == InitGraph /\ [][NextExpandSteps]_vars


\* what the server, a proxy or the network may answer to one attempt
Outcomes ==
  {NetworkError} \cup
  {Response(status, json) : status \in {200, 204, 404, 500}, json \in BOOLEAN}

\* the retries and retryDelay (in ms) a client is constructed with
RetryOptions == {<<-1, 1000>>, <<0, 1000>>, <<1, 1000>>, <<2, 1000>>, <<2, 250>>}

NextClient ==
  \/ \E o \in RetryOptions : calls = <<>> /\ RequestStart(o[1], o[2])
  \/ \E i \in 1..MaxCalls, outcome \in Outcomes : RequestFetch(i, outcome)
  \/ \E i \in 1..MaxCalls : RequestWake(i)

\* requests of an SDK client, one at a time, against every sequence of
\* answers
SpecClient == Init /\ [][NextClient]_vars

\* synapses formed in any order, expansions and searches over them
SpecGraph == InitGraph /\ [][NextGraph]_vars

NextCascade ==
  \/ AddMemory("u1", "hiking", Answer(<<"hiking", "cooking">>, "preferential", <<>>),
               NoStrand, UNDEFINED)
  \/ \E a \in 1..nextId : \E b \in (1..nextId) \ {a} :
       FormSynapse(a, b, "u1", FormWeight)
  \/ \E id \in 1..nextId : DeleteEngram(id)
  \/ \E v \in {"Samsung", "iPhone"} :
       RecordFact("u1", "speaker", "phone", v, UNDEFINED, UNDEFINED)
  \/ \E id \in 1..(Len(chronicles) + 1) : ExpireChronicle(id)
  \/ \E a \in 1..(Len(chronicles) + 1), b \in 1..(Len(chronicles) + 1) :
       CreateNexus(a, b, "same-device")

\* memories ingested, linked and deleted, facts recorded, expired and linked
SpecCascade == Init /\ [][NextCascade]_vars

NextRecordRace ==
  \/ \E v \in {"Samsung", "iPhone"} : RecordFactLookup("u1", "speaker", "phone", v)
  \/ \E i \in 1..MaxCalls : RecordFactExpire(i)
  \/ \E i \in 1..MaxCalls : RecordFactInsert(i)
  \/ Tick

\* recordFact calls that run between each other's awaits
SpecRecordRace == Init /\ [][NextRecordRace]_vars

\* the memories the editing model ingests: <<ownerId, content>>
EditCreations == {<<"u1", "hiking">>, <<"u1", "cooking">>, <<"u2", "hiking">>}

\* a provider answer without any fact or temporal fact
EmptyAnswer == Answer(<<>>, "general", <<>>)

NextEdit ==
  \/ \E c \in EditCreations :
       AddMemory(c[1], c[2], Passthrough(c[2]), NoStrand, UNDEFINED)
  \/ AddMemory("u1", "cooking", EmptyAnswer, NoStrand, UNDEFINED)
  \/ \E id \in 1..nextId, content \in {"hiking", "cooking", NoText} :
       UpdateEngram(id, content, NoStrand, UNDEFINED)
  \/ \E id \in 1..nextId : DeleteEngram(id)

\* any sequence of addMemory / updateEngram / deleteEngram requests, one
\* at a time
SpecEdit == Init /\ [][NextEdit]_vars

\* the extractions of the failing calls: <<content, answer>>
FailIngestions ==
  {<<"hiking", Answer(<<"hiking", "cooking">>, "preferential", <<>>)>>,
   <<"cooking", Answer(<<"cooking", "hiking">>, "factual",
                       <<[entity |-> "speaker", attribute |-> "phone",
                          value |-> "Samsung"]>>)>>}

NextIngestFail ==
  \/ \E o \in Owners, in \in FailIngestions :
       AddMemory(o, in[1], in[2], NoStrand, UNDEFINED)
  \/ \E o \in Owners, in \in FailIngestions, k \in 1..2 :
       AddMemoryError(o, in[1], in[2], NoStrand, UNDEFINED, k)
  \/ Tick

\* addMemory calls that succeed or fail at one of their facts
SpecIngestFail == Init /\ [][NextIngestFail]_vars

NextIngestRace ==
  \/ \E c \in EditCreations : AddMemoryCheck(c[1], c[2])
  \/ \E i \in 1..MaxCalls : AddMemoryStore(i)
  \/ Tick

\* addMemory calls that run between each other's awaits
SpecIngestRace == Init /\ [][NextIngestRace]_vars

\* ------------------------------------------------------------------ claims

SameTuple(c, d) ==
  /\ c.ownerId = d.ownerId
  /\ c.entity = d.entity
  /\ c.attribute = d.attribute

OpenRows(table, t) ==
  {c \in RowsOf(table) : SameTuple(c, t) /\ c.effectiveUntil = NULL}

\* C1: after any sequence of recordFact, updateChronicle and expireChronicle
\* calls, every (owner, entity, attribute) tuple has at most one chronicle
\* whose effectiveUntil is null
C1_AtMostOneOpen ==
  \A c \in RowsOf(chronicles) : Cardinality(OpenRows(chronicles, c)) <= 1

\* C2: a successful recordFact without effectiveFrom (or effectiveUntil), for a tuple that has a
\* current (open) chronicle of another value, leaves that prior chronicle
\* with a non-null effectiveUntil, the new chronicle open, exactly one open
\* chronicle for the tuple, and getCurrentFact returning the new value
C2_Supersedes ==
  [][(/\ last'.op = "recordFact"
      /\ last'.ok
      /\ last'.effectiveFrom = UNDEFINED
      /\ last'.effectiveUntil = UNDEFINED
      /\ \E c \in OpenRows(chronicles, last') : c.value # last'.value)
     =>
     (/\ \A c \in OpenRows(chronicles, last') :
            chronicles'[c.id].effectiveUntil # NULL
      /\ chronicles'[last'.id].effectiveUntil = NULL
      /\ Cardinality(OpenRows(chronicles', last')) = 1
      /\ getCurrentFact(chronicles', last'.ownerId, last'.entity,
                        last'.attribute, now') # {}
      /\ \A r \in getCurrentFact(chronicles', last'.ownerId, last'.entity,
                                 last'.attribute, now') :
            r.value = last'.value)]_vars

\* the at-queries the model asks (no from / to range): with and without an
\* entity / attribute filter, a filter no stored row passes, a short page
AtQueries ==
  {[ownerId |-> o, entity |-> e, attribute |-> a, at |-> t,
    from |-> UNDEFINED, to |-> UNDEFINED, limit |-> p[1], offset |-> p[2]] :
   o \in Owners, e \in {"speaker", "john"}, a \in {"", "city"}, t \in Instants,
   p \in {<<UNDEFINED, UNDEFINED>>, <<1, UNDEFINED>>, <<1, 1>>}}

AtMatches(table, query) ==
  {c \in RowsOf(table) :
     /\ c.ownerId = query.ownerId
     /\ (query.entity # "" => c.entity = query.entity)
     /\ (query.attribute # "" => c.attribute = query.attribute)
     /\ c.effectiveFrom <= query.at
     /\ (c.effectiveUntil = NULL \/ c.effectiveUntil > query.at)}

\* C10: queryChronicles with at = T returns exactly the owner's chronicles
\* that pass the entity / attribute filters and have effectiveFrom <= T and
\* effectiveUntil null or > T, up to the page: no other row, no row twice,
\* total counts them all, and the page holds as many as limit and offset allow
C10_AtQuery ==
  \A query \in AtQueries : \A res \in queryChronicles(chronicles, query) :
    LET want == AtMatches(chronicles, query)
        limit == IF query.limit = UNDEFINED THEN DefaultLimit ELSE query.limit
        offset == IF query.offset = UNDEFINED THEN 0 ELSE query.offset
        got == {res.chronicles[i].id : i \in DOMAIN res.chronicles}
        room == IF Cardinality(want) > offset THEN Cardinality(want) - offset ELSE 0
    IN /\ got \subseteq {c.id : c \in want}
       /\ Cardinality(got) = Len(res.chronicles)
       /\ res.total = Cardinality(want)
       /\ Len(res.chronicles) = (IF room < limit THEN room ELSE limit)

\* C10 witness: an at-query that leaves out a chronicle ending exactly at T
\* and returns one starting exactly at T
C10_Witness ==
  \E query \in AtQueries : \E res \in queryChronicles(chronicles, query) :
    /\ query.limit = UNDEFINED /\ query.offset = UNDEFINED
    /\ \E c \in RowsOf(chronicles) :
         /\ c.ownerId = query.ownerId /\ c.effectiveUntil = query.at
         /\ c.effectiveFrom < query.at
         /\ \A i \in DOMAIN res.chronicles : res.chronicles[i].id # c.id
    /\ \E i \in DOMAIN res.chronicles : res.chronicles[i].effectiveFrom = query.at
    /\ \E c \in RowsOf(chronicles) : c.ownerId # query.ownerId /\ ValidAt(c, query.at)

\* C3: calling addMemory twice in sequence with the same content for the same
\* owner (the content extracted to the same facts both times) leaves exactly
\* one engram for that content: the second call creates no engram, resolves
\* every fact to exactly one engram that existed before the call, and
\* strictly increases that engram's signal unless it is already 1.0.
C3_SecondAddReinforces ==
  [][(last'.op = "addMemory" /\ last'.repeat) =>
       /\ Len(engrams') = Len(engrams)
       /\ Len(last'.storedEngrams) = Len(last'.facts)
       /\ \A k \in DOMAIN last'.storedEngrams :
            LET id == last'.storedEngrams[k] IN
              /\ HasEngram(engrams, id)
              /\ checkDuplicate(engrams', last'.ownerId, last'.facts[k],
                                embed(last'.facts[k])) = {id}
              /\ \/ getEngram(engrams', id).signal > getEngram(engrams, id).signal
                 \/ getEngram(engrams, id).signal = One]_vars

\* a second, identical addMemory has reinforced an engram from 0.5 to 0.6
C3_Witness ==
  /\ last.op = "addMemory"
  /\ last.repeat
  /\ \E k \in DOMAIN last.storedEngrams :
       /\ HasEngram(engrams, last.storedEngrams[k])
       /\ getEngram(engrams, last.storedEngrams[k]).signal
            = DefaultSignal + DuplicateBoost
       /\ getEngram(engrams, last.storedEngrams[k]).accessCount = 1

\* C4: after any sequence of addMemory, updateEngram, reinforceEngram,
\* runDecay and search operations, every stored engram has 0 <= signal <= 1.
C4_SignalInRange ==
  \A e \in RowsOf(engrams) : 0 <= e.signal /\ e.signal <= One

\* a reinforcement whose sum passes 1.0 has been capped, next to an engram
\* whose signal is 0
C4_Witness ==
  /\ last.op = "reinforceEngram"
  /\ last.ok
  /\ last.before + last.boost > One
  /\ getEngram(engrams, last.id).signal = One
  /\ \E e \in RowsOf(engrams) : e.signal = 0

\* C5: one decay cycle (runDecay) for an owner changes the signal of each of
\* the owner's engrams with signal > minSignal exactly once, to
\* max(signal * rate[strand of that engram], minSignal), using only the rate
\* of the engram's own strand, and changes no other signal.
C5_DecayOwnStrandRate ==
  [][last'.op = "runDecay" =>
       /\ Len(engrams') = Len(engrams)
       /\ \A i \in DOMAIN engrams :
            engrams'[i].signal =
              IF engrams[i].ownerId = last'.ownerId /\ engrams[i].signal > MinSignal
              THEN Max(MulRate(engrams[i].signal, strandRates[engrams[i].strand]),
                       MinSignal)
              ELSE engrams[i].signal]_vars

\* C6: the store's decayEngrams with rate 1.0 leaves every signal unchanged;
\* with rate < 1 it strictly decreases every signal of the owner above
\* minSignal, never takes a signal below minSignal, and leaves signals at or
\* below minSignal (and other owners' signals) untouched.
C6_DecayStore ==
  [][last'.op = "decayEngrams" =>
       /\ Len(engrams') = Len(engrams)
       /\ \A i \in DOMAIN engrams :
            LET old == engrams[i].signal
                new == engrams'[i].signal
            IN /\ last'.decayFactor = 100 => new = old
               /\ (/\ last'.decayFactor < 100
                   /\ engrams[i].ownerId = last'.ownerId
                   /\ old > last'.minSignal) =>
                    (new < old /\ new >= last'.minSignal)
               /\ old <= last'.minSignal => new = old
               /\ engrams[i].ownerId # last'.ownerId => new = old]_vars

\* a decay with rate < 1 has floored one signal of the owner at minSignal and
\* left another one, below minSignal, untouched
C6_Witness ==
  /\ last.op = "decayEngrams"
  /\ last.decayFactor < 100
  /\ \E i \in DOMAIN engrams, j \in DOMAIN engrams :
       /\ engrams[i].ownerId = last.ownerId
       /\ engrams[j].ownerId = last.ownerId
       /\ last.before[i] > last.minSignal
       /\ engrams[i].signal = last.minSignal
       /\ last.before[j] > 0
       /\ last.before[j] < last.minSignal
       /\ engrams[j].signal = last.before[j]

\* C7: reinforceEngram(id, boost) sets the engram's signal to exactly
\* min(signal + boost, 1.0), so a positive boost strictly increases the
\* signal unless it is already 1.0, and changes the signal of no other engram.
C7_ReinforceExact ==
  [][last'.op = "reinforceEngram" =>
       /\ Len(engrams') = Len(engrams)
       /\ \A i \in DOMAIN engrams :
            IF engrams[i].id = last'.id
            THEN /\ engrams'[i].signal = Min(engrams[i].signal + last'.boost, One)
                 /\ (last'.boost > 0 /\ engrams[i].signal < One) =>
                      engrams'[i].signal > engrams[i].signal
            ELSE engrams'[i].signal = engrams[i].signal]_vars

\* signal 0.5 reinforced by 0.6 is exactly 1.0, with a second engram stored
C7_Witness ==
  /\ last.op = "reinforceEngram"
  /\ last.ok
  /\ last.before = DefaultSignal
  /\ last.boost = 600000
  /\ getEngram(engrams, last.id).signal = One
  /\ \E e \in RowsOf(engrams) : e.id # last.id /\ e.signal < One

\* C8: after any sequence of addMemory calls (including inputs whose
\* extracted facts deduplicate to the same engram), every stored synapse has
\* sourceId # targetId and 0 < weight <= 1.
C8_SynapseWellFormed ==
  \A s \in RowsOf(synapses) :
    /\ s.sourceId # s.targetId
    /\ 0 < s.weight
    /\ s.weight <= One

\* the weight of the synapse from a to b, 0 when there is none
WeightOf(table, a, b) ==
  IF HasSynapse(table, a, b)
  THEN (CHOOSE s \in RowsOf(table) : s.sourceId = a /\ s.targetId = b).weight
  ELSE 0

\* the synapse from a to b was created with weight 0.5 or upserted by 0.5
FormedOnce(a, b) ==
  WeightOf(synapses', a, b) = Min(WeightOf(synapses, a, b) + FormWeight, One)

SynapseKept(a, b) == WeightOf(synapses', a, b) = WeightOf(synapses, a, b)

\* C9: when one addMemory call produces n >= 2 engrams (newly created and/or
\* reinforced), exactly one synapse is created (weight 0.5) or upserted for
\* each unordered pair of them; when it produces fewer than 2 engrams no
\* synapse is created or changed.
C9_OneSynapsePerPair ==
  [][last'.op = "addMemory" =>
       LET ids == {last'.storedEngrams[k] : k \in DOMAIN last'.storedEngrams}
           all == 1..nextId'
       IN IF Cardinality(ids) < 2
          THEN synapses' = synapses
          ELSE \A a \in all, b \in all :
                 IF a \in ids /\ b \in ids /\ a # b
                 THEN \/ FormedOnce(a, b) /\ SynapseKept(b, a)
                      \/ FormedOnce(b, a) /\ SynapseKept(a, b)
                 ELSE SynapseKept(a, b)]_vars

\* C11: expireChronicle sets effectiveUntil to now if and only if the
\* chronicle is currently open (effectiveUntil = null); on an already-expired
\* or unknown chronicle it changes nothing (the earlier effectiveUntil is
\* kept) and reports failure, which the API surfaces as 404.
C11_ExpireOnlyOpen ==
  [][last'.op = "expireChronicle" =>
       LET open == \E c \in RowsOf(chronicles) :
                     c.id = last'.id /\ c.effectiveUntil = NULL
       IN /\ Len(chronicles') = Len(chronicles)
          /\ \A i \in DOMAIN chronicles :
               IF chronicles[i].id = last'.id /\ chronicles[i].effectiveUntil = NULL
               THEN chronicles'[i] = [chronicles[i] EXCEPT !.effectiveUntil = now]
               ELSE chronicles'[i] = chronicles[i]
          /\ last'.ok <=> open
          /\ last'.status = (IF open THEN 204 ELSE 404)]_vars

\* an expire of a chronicle that was expired at an earlier instant was
\* answered 404 and the earlier effectiveUntil is still there
C11_Witness ==
  /\ last.op = "expireChronicle"
  /\ last.status = 404
  /\ \E c \in RowsOf(chronicles) :
       /\ c.id = last.id
       /\ c.effectiveUntil # NULL
       /\ c.effectiveUntil < now

\* the owner of the engram / chronicle with this id
OwnerOf(table, id) == (CHOOSE r \in RowsOf(table) : r.id = id).ownerId

\* C13: no entity references another owner's data: after any sequence of
\* operations every synapse connects two engrams whose ownerId equals the
\* synapse's ownerId, and every nexus connects two chronicles of the same owner.
C13_NoCrossOwnerReference ==
  /\ \A s \in RowsOf(synapses) :
       /\ HasEngram(engrams, s.sourceId)
       /\ HasEngram(engrams, s.targetId)
       /\ OwnerOf(engrams, s.sourceId) = s.ownerId
       /\ OwnerOf(engrams, s.targetId) = s.ownerId
  /\ \A n \in RowsOf(nexuses) :
       OwnerOf(chronicles, n.originId) = OwnerOf(chronicles, n.linkedId)

\* C14: on any provider error, malformed output (facts that are no array)
\* or unknown strand, the fact extractor returns exactly the raw input as
\* its single fact, with strand general and an empty temporalFacts list
C14_ExtractFallback ==
  (/\ last.op = "extract"
   /\ \/ ~last.result.ok
      \/ "facts" \notin last.result.arrays
      \/ last.result.strand \notin Strands)
  => last.out = [facts |-> <<last.content>>, strand |-> "general",
                 temporalFacts |-> <<>>]

\* C15: if recording a temporal fact fails during addMemory, addMemory still
\* succeeds and returns the stored / reinforced engrams (one per fact); the
\* engrams and synapses written earlier in the call remain stored, and the
\* remaining temporal facts of the input are still attempted: each fact was
\* passed to recordFact, so a chronicle of its value starting at the time of
\* the call exists afterwards
C15_TemporalFailureTolerated ==
  [][(/\ last'.op = "addMemory"
      /\ \E k \in DOMAIN last'.recorded : ~last'.recorded[k])
     =>
     (/\ Len(last'.storedEngrams) = Len(last'.facts)
      /\ \A i \in DOMAIN last'.storedEngrams :
            /\ HasEngram(engrams', last'.storedEngrams[i])
            /\ getEngram(engrams', last'.storedEngrams[i]).ownerId = last'.ownerId
            /\ \A j \in DOMAIN last'.storedEngrams :
                 i < j => HasSynapse(synapses', last'.storedEngrams[i],
                                     last'.storedEngrams[j])
      /\ \A e \in RowsOf(engrams) : HasEngram(engrams', e.id)
      /\ Len(last'.recorded) = Len(last'.temporalFacts)
      /\ \A k \in DOMAIN last'.temporalFacts :
            ChronicleUniqueViolation(chronicles', last'.temporalFacts[k].entity,
                                     last'.temporalFacts[k].attribute,
                                     last'.temporalFacts[k].value, now))]_vars

\* C15 witness: an addMemory whose first temporal fact failed and whose
\* second one was recorded, after it created two engrams and their synapse
C15_Witness ==
  /\ last.op = "addMemory"
  /\ Len(last.recorded) = 2 /\ ~last.recorded[1] /\ last.recorded[2]
  /\ Len(last.storedEngrams) = 2
  /\ \A i \in DOMAIN last.storedEngrams :
        getEngram(engrams, last.storedEngrams[i]).createdAt = now
  /\ HasSynapse(synapses, last.storedEngrams[1], last.storedEngrams[2])
  /\ \E c \in RowsOf(chronicles) : c.value = "iPhone" /\ c.effectiveFrom = now

\* C16: on the non-fallback path search returns at most limit hits, in
\* non-increasing finalScore order, every hit having finalScore >=
\* minFinalScore (default 0.35), and total equals the number of hits returned
C16_MainPathHits ==
  (last.op = "search" /\ ~last.result.fallback) =>
    LET hits == last.result.hits
        limit == IF last.query.limit = UNDEFINED THEN SearchLimit
                 ELSE last.query.limit
        minFinalScore == IF last.query.minFinalScore = UNDEFINED
                         THEN MinFinalScore ELSE last.query.minFinalScore
    IN /\ Len(hits) <= limit
       /\ \A i \in DOMAIN hits : \A j \in DOMAIN hits :
            i < j => hits[i].trace.finalScore >= hits[j].trace.finalScore
       /\ \A i \in DOMAIN hits : hits[i].trace.finalScore >= minFinalScore
       /\ last.result.total = Len(hits)

\* C16 witness: a main-path search of the default floor that dropped a
\* candidate below 0.35 and kept one; another with limit 1 that returned
\* the better of two candidates is reached by the same runs
C16_Witness ==
  /\ last.op = "search" /\ ~last.result.fallback
  /\ last.query.minFinalScore = UNDEFINED
  /\ Len(last.result.hits) = 1
  /\ Cardinality({e \in RowsOf(engrams) : e.ownerId = last.ownerId}) = 2

\* the limit and the similarity floor a search request stands for
LimitOf(query) == IF query.limit = UNDEFINED THEN SearchLimit ELSE query.limit
MinScoreOf(query) == IF query.minScore = UNDEFINED THEN 0 ELSE query.minScore

\* no engram of the owner (and strand) reaches the similarity floor
NoVectorCandidate(table, query) ==
  \A e \in RowsOf(table) :
    (e.ownerId = query.ownerId /\ (query.strand # NoStrand => e.strand = query.strand))
    => /\ MinScoreOf(query) > 0
       /\ cosineSimilarity(embed(query.query), e.embedding) < MinScoreOf(query)

\* no listed engram has a positive BM25 score
NoKeywordHit(table, query) ==
  \A all \in listEngrams(table, query.ownerId, 3 * LimitOf(query), NoStrand) :
    \A i \in DOMAIN all : score(query.query, all)[i] <= 0

\* the owner's chronicles valid at t that share a token with the query
MatchingChronicles(table, query, t) ==
  {c.id : c \in {c \in RowsOf(table) :
      /\ c.ownerId = query.ownerId /\ ValidAt(c, t)
      /\ \E k \in DOMAIN tokenize(query.query) :
           \E f \in {c.entity, c.attribute, c.value} :
             \E j \in DOMAIN tokenize(f) :
               tokenize(f)[j] = tokenize(query.query)[k]}}

\* C18: when vector search yields no candidate after the minScore filter
\* and no listed engram has a positive BM25 score, search returns hits = []
\* and total = 0 and still returns the chronicle matches for the query
C18_EmptyHitsKeepChronicles ==
  [][(/\ last'.op = "search"
      /\ NoVectorCandidate(engrams, last'.query)
      /\ NoKeywordHit(engrams, last'.query))
     =>
     (/\ last'.result.hits = <<>>
      /\ last'.result.total = 0
      /\ last'.result.chronicles
           \in searchChronicles(chronicles, last'.ownerId, last'.query.query, now)
      /\ {last'.result.chronicles[i].chronicle.id :
            i \in DOMAIN last'.result.chronicles}
         = MatchingChronicles(chronicles, last'.query, now))]_vars

\* C18 witness: a search of an owner with engrams, none similar enough and
\* none sharing a token with the query, that returned a chronicle match
C18_Witness ==
  /\ last.op = "search"
  /\ last.result.hits = <<>> /\ last.result.total = 0
  /\ last.result.chronicles # <<>>
  /\ \E e \in RowsOf(engrams) : e.ownerId = last.ownerId
  /\ NoVectorCandidate(engrams, last.query)
  /\ NoKeywordHit(engrams, last.query)

\* the distinct query tokens that appear among the tokens of
\* "entity attribute value"
DistinctMatches(query, c) ==
  {tokenize(query)[k] : k \in DOMAIN tokenize(query)} \cap
  {(tokenize(c.entity) \o tokenize(c.attribute) \o tokenize(c.value))[j] :
     j \in DOMAIN (tokenize(c.entity) \o tokenize(c.attribute) \o tokenize(c.value))}

\* the chronicle matches of a search are currently valid chronicles of the
\* owner, at most five, each of positive relevance, in non-increasing order,
\* and none for a query without tokens
ChronicleHitsWellFormed ==
  last.op = "search" =>
    LET hits == last.result.chronicles IN
      /\ Len(hits) <= TopChronicles
      /\ \A i \in DOMAIN hits :
           /\ hits[i].chronicle.ownerId = last.ownerId
           /\ \E c \in RowsOf(chronicles) :
                c.id = hits[i].chronicle.id /\ ValidAt(c, now)
           /\ hits[i].relevance > 0
           /\ \A j \in DOMAIN hits : i < j => hits[i].relevance >= hits[j].relevance
      /\ (tokenize(last.query.query) = <<>> => hits = <<>>)

\* C19: the chronicle matcher returns only chronicles currently valid for
\* the owner (never an expired one), each with relevance = (number of
\* distinct query tokens that appear among the tokens of "entity attribute
\* value") / (query token count) and relevance > 0, at most 5 of them, in
\* non-increasing relevance order; a query that tokenizes to zero tokens
\* produces zero chronicle matches
C19_ChronicleMatcher ==
  /\ ChronicleHitsWellFormed
  /\ last.op = "search" =>
       \A i \in DOMAIN last.result.chronicles :
         last.result.chronicles[i].relevance
           = DivFix(Cardinality(DistinctMatches(last.query.query,
                                                last.result.chronicles[i].chronicle)),
                    Len(tokenize(last.query.query)))

\* C17: for every search hit, on the main path and on the fallback path,
\* trace.finalScore equals 0.30 vectorScore + 0.30 keywordScore +
\* recencyBoost + signalBoost + synapseBoost and lies in [0, 1]
C17_FinalScore ==
  last.op = "search" =>
    \A i \in DOMAIN last.result.hits :
      LET trace == last.result.hits[i].trace IN
        /\ trace.finalScore = MulRate(trace.vectorScore, 30)
                               + MulRate(trace.keywordScore, 30)
                               + trace.recencyBoost + trace.signalBoost
                               + trace.synapseBoost
        /\ 0 <= trace.finalScore /\ trace.finalScore <= One

\* C17 witness: a main-path hit that carries a synapse boost next to hits
\* with vector and keyword scores
C17_Witness ==
  /\ last.op = "search" /\ ~last.result.fallback
  /\ \E i \in DOMAIN last.result.hits :
       /\ last.result.hits[i].trace.synapseBoost > 0
       /\ last.result.hits[i].trace.recencyBoost > 0
       /\ last.result.hits[i].trace.signalBoost > 0
  /\ \E i \in DOMAIN last.result.hits :
       /\ last.result.hits[i].trace.vectorScore > 0
       /\ last.result.hits[i].trace.keywordScore > 0

\* what the read operations return for an owner holds rows of that owner
\* only
ReadsScoped ==
  \A o \in Owners :
    /\ \A page \in listEngrams(engrams, o, UNDEFINED, NoStrand) :
         \A i \in DOMAIN page : page[i].ownerId = o
    /\ \A text \in Texts :
         \A id \in checkDuplicate(engrams, o, text, embed(text)) :
           id # NoId => getEngram(engrams, id).ownerId = o
    /\ \A e \in Entities, a \in Attributes :
         \A c \in getCurrentFact(chronicles, o, e, a, now) : c.ownerId = o
    /\ \A e \in Entities :
         \A timeline \in getTimeline(chronicles, o, e) :
           \A i \in DOMAIN timeline : timeline[i].ownerId = o
    /\ \A at \in OptInstant :
         \A res \in queryChronicles(chronicles,
                      [ownerId |-> o, entity |-> "", attribute |-> "", at |-> at,
                       from |-> UNDEFINED, to |-> UNDEFINED,
                       limit |-> UNDEFINED, offset |-> UNDEFINED]) :
           \A i \in DOMAIN res.chronicles : res.chronicles[i].ownerId = o
    /\ \A q \in {t \in TenantQueries : t.ownerId = o} :
         \A res \in search(engrams, synapses, chronicles, q, now) :
           /\ \A i \in DOMAIN res.hits : res.hits[i].engram.ownerId = o
           /\ \A i \in DOMAIN res.chronicles : res.chronicles[i].chronicle.ownerId = o

\* an addMemory, runDecay or search of one owner leaves the engrams and
\* chronicles of every other owner as they were
WritesScoped ==
  last'.op \in {"addMemory", "runDecay", "search"} =>
    /\ \A i \in DOMAIN engrams :
         engrams[i].ownerId # last'.ownerId => engrams'[i] = engrams[i]
    /\ \A i \in DOMAIN chronicles :
         chronicles[i].ownerId # last'.ownerId => chronicles'[i] = chronicles[i]

\* C12: all queries are scoped by ownerId: an operation invoked for owner A
\* (search including its fallback and chronicle match, listEngrams,
\* addMemory's dedup, runDecay, getCurrentFact, getTimeline, queryChronicles)
\* never returns and never modifies an engram or chronicle whose ownerId is
\* a different owner B
C12_OwnerScoped == []ReadsScoped /\ [][WritesScoped]_vars

\* C12 witness: owner A searched and got its own engram and chronicle while
\* owner B holds an engram of the same content and a chronicle of the same
\* entity and attribute
C12_Witness ==
  /\ last.op = "search"
  /\ last.result.hits # <<>> /\ last.result.chronicles # <<>>
  /\ \E e \in RowsOf(engrams), f \in RowsOf(engrams) :
       /\ e.ownerId = last.ownerId /\ f.ownerId # last.ownerId
       /\ e.content = f.content
  /\ \E c \in RowsOf(chronicles) :
       c.ownerId # last.ownerId /\ ValidAt(c, now)

\* C20: after any sequential sequence of addMemory, updateEngram and
\* deleteEngram calls, no two engrams of the same owner have the same
\* contentHash
C20_UniqueContentHash ==
  \A e \in RowsOf(engrams), f \in RowsOf(engrams) :
    (e.id # f.id /\ e.ownerId = f.ownerId) => e.contentHash # f.contentHash

\* a node the expansion walks through: a seed or an emitted engram
OnPath(seedIds, path) ==
  /\ Len(path) >= 2
  /\ \E i \in DOMAIN seedIds : seedIds[i] = path[1]
  /\ \A k \in 1..(Len(path) - 1) : HasSynapse(synapses, path[k], path[k + 1])

\* C21: every expansion of expandFrom has a depth from 1 to the depth
\* asked for and a path of depth + 1 engrams that starts at a seed, ends at
\* the engram emitted and follows synapses of the store; with depth 0
\* nothing is emitted
C21_ExpansionBounded ==
  last.op = "expandFrom" =>
    /\ \A i \in DOMAIN last.expansions :
         LET x == last.expansions[i]
         IN /\ 1 <= x.depth /\ x.depth <= last.depth
            /\ Len(x.path) = x.depth + 1
            /\ x.path[Len(x.path)] = x.engramId
            /\ OnPath(last.seedIds, x.path)
    /\ last.depth = 0 => last.expansions = <<>>

\* an expansion of depth 1 from engram 1 that emits 2 and 3 and stops
\* before engram 4, which both lead on to
C21_Witness ==
  /\ last.op = "expandFrom"
  /\ last.depth = 1
  /\ last.seedIds = <<1>>
  /\ HasSynapse(synapses, 2, 4)
  /\ HasSynapse(synapses, 3, 4)
  /\ {last.expansions[i].engramId : i \in DOMAIN last.expansions} = {2, 3}

\* the engrams in the order expandFrom takes them up: the seeds, then the
\* engrams emitted
VisitOrder(seedIds, expansions) ==
  seedIds \o [i \in DOMAIN expansions |-> expansions[i].engramId]

\* the boost and the depth of the k-th engram taken up
BoostAt(seedIds, expansions, k) ==
  IF k <= Len(seedIds) THEN One ELSE expansions[k - Len(seedIds)].boost

DepthAt(seedIds, expansions, k) ==
  IF k <= Len(seedIds) THEN 0 ELSE expansions[k - Len(seedIds)].depth

\* the k-th engram taken up is expanded and has a synapse to id
ReachesFrom(seedIds, expansions, depth, k, id) ==
  /\ DepthAt(seedIds, expansions, k) < depth
  /\ HasSynapse(synapses, VisitOrder(seedIds, expansions)[k], id)

\* C22: an expansion emits no engram twice and no seed; the boost of an
\* emitted engram is parentBoost x weight x decayFactor over the synapse
\* from the first engram, in breadth-first order, that leads to it, whatever
\* later synapses would give; in a search whose candidates are all seeds
\* every hit has synapseBoost 0
C22_FirstBoostStands ==
  /\ last.op = "expandFrom" =>
       LET xs == last.expansions
           order == VisitOrder(last.seedIds, xs)
       IN /\ \A i, j \in DOMAIN xs : xs[i].engramId = xs[j].engramId => i = j
          /\ \A i \in DOMAIN xs : \A k \in DOMAIN last.seedIds :
               xs[i].engramId # last.seedIds[k]
          /\ \A i \in DOMAIN xs :
               \E p \in DOMAIN order :
                 /\ ReachesFrom(last.seedIds, xs, last.depth, p, xs[i].engramId)
                 /\ \A q \in 1..(p - 1) :
                      ~ReachesFrom(last.seedIds, xs, last.depth, q, xs[i].engramId)
                 /\ xs[i].boost =
                      MulRate(MulFix(BoostAt(last.seedIds, xs, p),
                                     WeightOf(synapses, order[p], xs[i].engramId)),
                              last.decayFactor)
  /\ last.op = "search" =>
       \A i \in DOMAIN last.result.hits :
         last.result.hits[i].trace.synapseBoost = 0

\* engram 4 emitted over engram 2, reached first, although the way over
\* engram 3 carries the larger boost
C22_Witness ==
  /\ last.op = "expandFrom"
  /\ last.seedIds = <<1>>
  /\ HasSynapse(synapses, 3, 4)
  /\ \E i, j \in DOMAIN last.expansions :
       /\ last.expansions[i].path = <<1, 2, 4>>
       /\ last.expansions[j].engramId = 3
       /\ MulRate(MulFix(last.expansions[j].boost, WeightOf(synapses, 3, 4)),
                  last.decayFactor) > last.expansions[i].boost

\* a search over the linked engrams: the best hit is the target of a
\* synapse from another seed
C22_SearchReached ==
  /\ last.op = "search"
  /\ last.result.fallback = FALSE
  /\ \E i \in DOMAIN last.result.hits :
       HasSynapse(synapses, 3, last.result.hits[i].engram.id)

\* C23: the endpoints of every synapse are engrams of the store and the
\* endpoints of every nexus are chronicles of the store
C23_NoDanglingReference ==
  /\ \A s \in RowsOf(synapses) :
       HasEngram(engrams, s.sourceId) /\ HasEngram(engrams, s.targetId)
  /\ \A n \in RowsOf(nexuses) :
       /\ \E c \in RowsOf(chronicles) : c.id = n.originId
       /\ \E c \in RowsOf(chronicles) : c.id = n.linkedId

\* an engram deleted that was the target of a synapse, next to a nexus
\* whose origin has been expired
C23_Witness ==
  /\ last.op = "deleteEngram"
  /\ last.ok
  /\ last.id = 2
  /\ last.cascaded > 0
  /\ engrams # <<>>
  /\ \E n \in RowsOf(nexuses) : \E c \in RowsOf(chronicles) :
       c.id = n.originId /\ c.effectiveUntil # NULL

\* C24: a recordFact call that inserts after another call recorded a fact
\* of the same key since its lookup expires none of those rows: they and the
\* row it inserts all have effectiveUntil = null
C24_SupersessionNotAtomic ==
  (last.op = "recordFact.insert" /\ last.ok /\ last.since # {}) =>
    \A id \in last.since \cup {last.id} :
      \E c \in RowsOf(chronicles) : c.id = id /\ c.effectiveUntil = NULL

\* two calls that both read an empty store and then both inserted
C24_Witness ==
  /\ last.op = "recordFact.insert"
  /\ last.ok
  /\ last.existing = NoId
  /\ last.since # {}
  /\ \E c, d \in RowsOf(chronicles) :
       /\ c.id # d.id
       /\ c.id \in last.since
       /\ d.id = last.id
       /\ SameTuple(c, d)
       /\ c.effectiveUntil = NULL
       /\ d.effectiveUntil = NULL

\* C25: an addMemory call whose duplicate check found nothing stores its
\* fact also when another call stored the same content for the same owner
\* in between: the store takes the second engram of one (ownerId,
\* contentHash)
C25_DedupRace ==
  (last.op = "addMemory.store" /\ last.existing = NoId /\ last.same # {}) =>
    \E e, f \in RowsOf(engrams) :
      /\ e.id \in last.same
      /\ f.id # e.id
      /\ last.storedEngrams = <<f.id>>
      /\ f.ownerId = e.ownerId
      /\ f.contentHash = e.contentHash

\* two engrams of one owner with one content hash after interleaved calls
C25_Witness ==
  /\ last.op = "addMemory.store"
  /\ last.existing = NoId
  /\ \E e, f \in RowsOf(engrams) :
       /\ e.id # f.id
       /\ e.ownerId = f.ownerId
       /\ e.contentHash = f.contentHash
       /\ e.content = last.content
       /\ last.storedEngrams = <<f.id>>

\* C26: after an addMemory call, two positions of its fact list that hold
\* the same text resolved to the same engram, and the owner has one engram
\* of that content: the second occurrence met the first one in the store
C26_FactsOneByOne ==
  last.op = "addMemory" =>
    \A j, k \in DOMAIN last.facts :
      (j < k /\ last.facts[j] = last.facts[k]) =>
        /\ last.storedEngrams[j] = last.storedEngrams[k]
        /\ Cardinality({e \in RowsOf(engrams) :
                          /\ e.ownerId = last.ownerId
                          /\ e.content = last.facts[k]}) <= 1

\* one call with the fact hiking twice over an empty store: one engram,
\* created by the first occurrence and reinforced by the second
C26_Witness ==
  /\ last.op = "addMemory"
  /\ last.facts = <<"hiking", "hiking">>
  /\ last.storedEngrams[1] = last.storedEngrams[2]
  /\ Len(engrams) = 1
  /\ engrams[1].content = "hiking"
  /\ engrams[1].accessCount = 1
  /\ engrams[1].signal = DefaultSignal + DuplicateBoost

\* the range queries the model asks: from, to or both, no at
RangeQueries ==
  {[ownerId |-> o, entity |-> "", attribute |-> "", at |-> UNDEFINED,
    from |-> f, to |-> u, limit |-> UNDEFINED, offset |-> UNDEFINED] :
   o \in Owners, f \in OptInstant, u \in OptInstant} \
  {q \in [ownerId : Owners, entity : {""}, attribute : {""}, at : {UNDEFINED},
          from : OptInstant, to : OptInstant, limit : {UNDEFINED},
          offset : {UNDEFINED}] :
     \/ q.from = UNDEFINED /\ q.to = UNDEFINED
     \/ q.from # UNDEFINED /\ q.to # UNDEFINED /\ q.from >= q.to}

\* [effectiveFrom, effectiveUntil) meets [from, to), an absent end unbounded
Intersects(c, query) ==
  /\ (query.to # UNDEFINED => c.effectiveFrom < query.to)
  /\ (query.from # UNDEFINED =>
        (c.effectiveUntil = NULL \/ c.effectiveUntil > query.from))

\* C27: queryChronicles with a from / to range returns exactly the owner's
\* chronicles whose validity [effectiveFrom, effectiveUntil) meets [from, to)
C27_RangeQuery ==
  \A query \in RangeQueries : \A res \in queryChronicles(chronicles, query) :
    {res.chronicles[i].id : i \in DOMAIN res.chronicles} =
      {c.id : c \in {d \in RowsOf(chronicles) :
                       d.ownerId = query.ownerId /\ Intersects(d, query)}}

\* C28: an addMemory call whose provider answers facts = [] and
\* temporalFacts = [] returns the empty list and leaves engrams, synapses
\* and chronicles as they were
C28_NothingExtracted ==
  [][AddMemory("u1", "cooking", EmptyAnswer, NoStrand, UNDEFINED) =>
       /\ last'.storedEngrams = <<>>
       /\ engrams' = engrams
       /\ synapses' = synapses
       /\ chronicles' = chronicles]_vars

\* C29: when the k-th fact of an addMemory call fails, the k - 1 facts
\* before it stay as the call left them: each resolved to an engram of the
\* store, created with the fact as content or reinforced; no engram the
\* store held is gone, and no synapse or chronicle is written
C29_NoRollback ==
  [][last'.op = "addMemory.error" =>
       /\ Len(last'.storedEngrams) = last'.failedAt - 1
       /\ \A j \in DOMAIN last'.storedEngrams :
            LET id == last'.storedEngrams[j] IN
              /\ HasEngram(engrams', id)
              /\ IF HasEngram(engrams, id)
                 THEN /\ getEngram(engrams', id).accessCount
                           = getEngram(engrams, id).accessCount + 1
                      /\ getEngram(engrams', id).signal
                           = Min(getEngram(engrams, id).signal + DuplicateBoost, One)
                 ELSE /\ getEngram(engrams', id).content = last'.facts[j]
                      /\ getEngram(engrams', id).ownerId = last'.ownerId
       /\ \A e \in RowsOf(engrams) : HasEngram(engrams', e.id)
       /\ synapses' = synapses
       /\ chronicles' = chronicles]_vars

\* a call that failed at its second fact after it had stored the first
C29_Witness ==
  /\ last.op = "addMemory.error"
  /\ last.failedAt = 2
  /\ Len(engrams) = 1
  /\ last.storedEngrams = <<engrams[1].id>>
  /\ engrams[1].content = last.facts[1]
  /\ engrams[1].accessCount = 0
  /\ synapses = <<>>

C31_ChroniclesInParallel ==
  /\ \A i \in DOMAIN calls :
       (calls[i].op = "search" /\ calls[i].pc = "vectorSearch")
         => "getCurrentChronicles" \in calls[i].issued
  /\ last.op = "search" /\ "awaited" \in DOMAIN last
       => last.awaited = {"vectorSearch", "getCurrentChronicles"}

C32_MainPath ==
  /\ last.op = "reinforceAccessed.catch"
  /\ ~last.result.fallback
  /\ Len(last.result.hits) = 2
  /\ \E k \in DOMAIN last.result.hits :
       getEngram(engrams, last.result.hits[k].engram.id).accessCount = 0

\* C33: after a search returns hits, every returned engram has its access
\* recorded and, for a hit that a synapse expansion reached, a synapse that
\* leads to it has its weight increased (or is at the cap of 1)
C33_PathsReinforced ==
  [][last'.op = "search"
       => \A k \in DOMAIN last'.result.hits :
            LET hit == last'.result.hits[k]
            IN /\ getEngram(engrams', hit.engram.id).accessCount
                    = getEngram(engrams, hit.engram.id).accessCount + 1
               /\ hit.trace.synapseBoost > 0
                    => \E i \in DOMAIN synapses :
                         /\ synapses[i].targetId = hit.engram.id
                         /\ \/ synapses'[i].weight > synapses[i].weight
                            \/ synapses[i].weight = One]_vars

\* C34: after any sequence of recordFact, updateChronicle and
\* expireChronicle calls every chronicle that has an effectiveUntil
\* satisfies effectiveFrom <= effectiveUntil
C34_FromBeforeUntil ==
  \A c \in RowsOf(chronicles) :
    c.effectiveUntil # NULL => c.effectiveFrom <= c.effectiveUntil

\* C35: a search called with a strand filter returns only hits of that
\* strand, on the main path and on the keyword fallback alike
C35_StrandFilter ==
  (last.op = "search" /\ last.query.strand # NoStrand)
    => \A k \in DOMAIN last.result.hits :
         last.result.hits[k].engram.strand = last.query.strand

\* C36: a recordFact whose insert fails leaves the store as it was before
\* the call, so the chronicle that was current for the tuple is still current
C36_FailedInsertKeepsStore ==
  [][(last'.op = "recordFact" /\ ~last'.ok)
       => /\ chronicles' = chronicles
          /\ getCurrentFact(chronicles', last'.ownerId, last'.entity,
                            last'.attribute, now)
               = getCurrentFact(chronicles, last'.ownerId, last'.entity,
                                last'.attribute, now)]_vars

\* C37: whether recordFact succeeds for an owner does not depend on the
\* chronicles of other owners: the call succeeds unless the owner itself
\* holds a chronicle of the same entity, attribute, value and effectiveFrom
C37_OwnersIndependent ==
  [][last'.op = "recordFact"
       => LET from == IF last'.effectiveFrom # UNDEFINED THEN last'.effectiveFrom
                      ELSE now
              own == SelectSeq(chronicles, LAMBDA c : c.ownerId = last'.ownerId)
          IN last'.ok <=> ~ChronicleUniqueViolation(own, last'.entity,
                                                    last'.attribute, last'.value,
                                                    from)]_vars

\* C38: every engram in the list addMemory returns equals the stored state
\* of that engram when the call returns; a reinforced duplicate carries its
\* signal and accessCount after the reinforcement
C38_ReturnedIsStored ==
  (last.op = "addMemory")
    => \A k \in DOMAIN last.returned :
         last.returned[k] = getEngram(engrams, last.returned[k].id)

\* how often an id occurs in a sequence of ids
Occurrences(ids, id) == Cardinality({k \in DOMAIN ids : ids[k] = id})

\* the work an expansion in flight has left: the nodes of the frontier still
\* to visit, those of the next frontier, and two for every engram it has
\* not reached
Remaining(call) ==
  (Len(call.frontier) - call.i + 1) + Len(call.nextFrontier)
    + 2 * Cardinality({e.id : e \in RowsOf(engrams)} \ call.visited)

C40_RequestRetries ==
  /\ \A i \in DOMAIN calls :
       calls[i].op = "request" =>
         /\ calls[i].attempt <= calls[i].retries
         /\ Len(calls[i].history) <= calls[i].attempt + 1
  /\ last.op = "request" =>
       LET history == last.history
           final(k) == /\ history[k].kind = "http"
                       /\ \/ Ok(history[k].status)
                          \/ history[k].status \in 400..499
       IN /\ Len(history) <= last.retries + 1
          /\ \A k \in DOMAIN history : final(k) => k = Len(history)
          /\ \A k \in DOMAIN history :
               ~final(k) /\ k <= last.retries
                 => /\ k < Len(history)
                    /\ last.delays[k] = last.retryDelay * Pow2(k - 1)
          /\ last.returned <=> /\ history # <<>>
                               /\ history[Len(history)].kind = "http"
                               /\ Ok(history[Len(history)].status)
          /\ (history # <<>> /\ ~last.returned /\ ~final(Len(history)))
               => Len(history) = last.retries + 1

====
